---------------------------- MODULE Spec2Model ----------------------------
(***************************************************************************)
(* A model of the version artifact engine of the-picture-project:          *)
(*   service/pixel_diff.py      pixel-difference matrices and their codec  *)
(*   service/transformer.py     transform matrices and their codec         *)
(*   service/versions.py        the path layout                            *)
(*   service/index_db.py        the version index and its process cache    *)
(*   service/versioning.py, service/pixel_versioning.py   the workflows    *)
(*   service/reconstructor.py   reconstruction from one matrix or a chain  *)
(*   ui/webapp/views.py         delete_all                                 *)
(*                                                                         *)
(* The specifications that share the module:                               *)
(*   SpecDiff      compute / apply of pixel differences on bounded rasters *)
(*   SpecCodec     save / load of artifacts on a small file system         *)
(*   Spec          the index, its cache and the recording workflows        *)
(*   SpecCache     the index cache of one process beside external writers  *)
(*   SpecWriters   two processes running add_image_version on one index    *)
(*   SpecChain     one reconstruction call over a chain of matrices        *)
(*   SpecEstimate  one transform estimate per outcome of the library calls *)
(*   SpecRecord    the workflows given an original that may not exist      *)
(*   SpecPaths     one call of a path-layout function                      *)
(*   SpecGrow      add_image_version calls and workflows only              *)
(*   SpecArgs      one compute / apply call per kind of argument           *)
(*   SpecReset     delete_all of the web application beside index calls    *)
(*   SpecSteps     the workflows step by step, with a step that may fail   *)
(*   SpecSequential  processes calling add_image_version in turn           *)
(*   SpecPersist   add_image_version with a write that may fail            *)
(*   SpecFrame     add_image_version with empty and omitted key and path   *)
(***************************************************************************)
EXTENDS Integers, Sequences, FiniteSets, TLC

VARIABLES
    \* ---- SpecDiff
    original,     \* the original raster (an RGB uint8 array)
    edited,       \* the edited raster as given
    edit_img,     \* the edited raster after the size normalisation of compute
    diff,         \* the matrix compute returned, or None
    target,       \* the raster apply was called on, or None
    recon,        \* the raster apply returned, or None
    pcDiff,       \* "init" | "computed" | "applied"
    \* ---- SpecCodec, Spec
    fs,           \* artifact files: path -> file content
    lastCodec,    \* the last codec call and what it returned
    \* ---- Spec, SpecCache
    disk,         \* text of state/index.db (a sorted document), or Absent
    cache,        \* _index_cache of this process: Absent or an index dict
    lastOp,       \* the last index / workflow call and what it returned
    nOps,         \* number of calls made so far
    \* ---- SpecWriters
    writers       \* writer process -> its cache and its place in add_image_version

diffVars  == <<original, edited, edit_img, diff, target, recon, pcDiff>>
codecVars == <<fs, lastCodec>>
indexVars == <<disk, cache, lastOp, nOps, writers>>
vars      == <<original, edited, edit_img, diff, target, recon, pcDiff,
               fs, lastCodec, disk, cache, lastOp, nOps, writers>>

\* Python's None as an argument or a raster slot
None == "None"
\* an unset cache (_index_cache is None) and a missing index file
Absent == [absent |-> TRUE]

(***************************************************************************)
(* Bounds of the model.                                                    *)
(***************************************************************************)
\* widest raster row modelled (rasters are one row of MaxW pixels at most)
MaxW == 2
\* fractional bits of the modelled float32 values: a float is n / 2^FracBits
FracBits == 1
\* version numbers are 1..MaxVersion
MaxVersion == 2
\* calls made in one behaviour of Spec
MaxOps == 2
\* calls made in one behaviour of SpecCache
MaxCacheOps == 4
\* add_image_version calls made in one behaviour of SpecFrame
MaxFrameOps == 2
\* add_image_version calls begun in one behaviour of SpecWriters
MaxWriterCalls == 2
\* longest chain of matrices handed to reconstruct_from_chain
MaxChain == 3
\* most matches the matcher returns
MaxMatches == 5
\* version numbers the path functions are called with
MaxPathVersion == 11

(***************************************************************************)
(* Program constants.                                                      *)
(***************************************************************************)
Int8Min == -128
Int8Max == 127
UInt8Max == 255
PilShift == 128
\* fewest matches the affine estimate is attempted with
MinMatches == 4

(***************************************************************************)
(* numpy arrays: [dtype, shape, vals], vals the elements in row-major      *)
(* order.  Integer dtypes keep their width: a cast wraps.  A float32 value *)
(* is held as the integer n that stands for n / 2^FracBits.                *)
(***************************************************************************)
Pow2(n) == 2 ^ n

FloatUnit == Pow2(FracBits)

\* two's complement wrap of x to a signed integer of the given width
WrapSigned(x, bits) ==
    LET half == Pow2(bits - 1) IN ((x + half) % (2 * half)) - half
WrapUnsigned(x, bits) == x % Pow2(bits)

\* C-style truncation toward zero of x / d (d > 0)
TruncDiv(x, d) == IF x >= 0 THEN x \div d ELSE -((-x) \div d)

IsFloat(dtype) == dtype \in {"float32", "float64"}

\* the cast of one element from one dtype to another, as ndarray.astype does
CastValue(v, from, to) ==
    LET asInt == IF IsFloat(from) THEN TruncDiv(v, FloatUnit) ELSE v
    IN  CASE IsFloat(to)    -> IF IsFloat(from) THEN v ELSE v * FloatUnit
          [] to = "int64"   -> asInt
          [] to = "int8"    -> WrapSigned(asInt, 8)
          [] to = "int16"   -> WrapSigned(asInt, 16)
          [] to = "uint8"   -> WrapUnsigned(asInt, 8)

astype(a, dtype) ==
    [dtype |-> dtype, shape |-> a.shape,
     vals  |-> [i \in DOMAIN a.vals |-> CastValue(a.vals[i], a.dtype, dtype)]]

SeqMin(s) == CHOOSE m \in { s[i] : i \in DOMAIN s } : \A i \in DOMAIN s : m <= s[i]
SeqMax(s) == CHOOSE m \in { s[i] : i \in DOMAIN s } : \A i \in DOMAIN s : m >= s[i]

\* np.all((matrix >= -128) & (matrix <= 127))
AllFitInt8(a) == \A i \in DOMAIN a.vals : a.vals[i] >= Int8Min /\ a.vals[i] <= Int8Max

\* np.clip(a, lo, hi)
clip(a, lo, hi) ==
    [a EXCEPT !.vals = [i \in DOMAIN a.vals |->
        IF a.vals[i] < lo THEN lo ELSE IF a.vals[i] > hi THEN hi ELSE a.vals[i]]]

\* elementwise int16 arithmetic of two arrays of one shape, and with a scalar
Sub16(a, b) ==
    [dtype |-> "int16", shape |-> a.shape,
     vals  |-> [i \in DOMAIN a.vals |-> WrapSigned(a.vals[i] - b.vals[i], 16)]]
Add16(a, b) ==
    [dtype |-> "int16", shape |-> a.shape,
     vals  |-> [i \in DOMAIN a.vals |-> WrapSigned(a.vals[i] + b.vals[i], 16)]]
AddScalar16(a, k) ==
    [dtype |-> "int16", shape |-> a.shape,
     vals  |-> [i \in DOMAIN a.vals |-> WrapSigned(a.vals[i] + k, 16)]]

(***************************************************************************)
(* Rasters: RGB images as the uint8 array np.array(img) of shape (h, w, 3).*)
(* The modelled rasters are one row of 1..MaxW pixels drawn from Pixels,   *)
(* whose channel differences hit 0, 127, 128, -128, -129, 255 and -255.    *)
(***************************************************************************)
Pixels == { <<0, 128, 0>>, <<128, 1, 0>>, <<129, 1, 0>>, <<255, 255, 255>> }

Image(row) ==
    [dtype |-> "uint8", shape |-> <<1, Len(row), 3>>,
     vals  |-> [i \in 1..(3 * Len(row)) |-> row[((i - 1) \div 3) + 1][((i - 1) % 3) + 1]]]

RastersOfWidth(w) == { Image(row) : row \in [1..w -> Pixels] }
Rasters == UNION { RastersOfWidth(w) : w \in 1..MaxW }

\* Image.size is (width, height)
size(img) == <<img.shape[2], img.shape[1]>>

\* Image.resize(size, LANCZOS): the raster codec's resampling is not modelled;
\* any raster of the requested size may come back.
resize_LANCZOS(img, sz) == RastersOfWidth(sz[1])

\* Image.resize(size, NEAREST): output pixel (x, y) takes the source pixel
\* under its centre, column floor((x + 1/2) * w_in / w_out) and row
\* floor((y + 1/2) * h_in / h_out).  The image has the channels of its array:
\* three for an (h, w, 3) array, one for an (h, w) array (mode L).
resize_NEAREST(img, sz) ==
    LET hin == img.shape[1]
        win == img.shape[2]
        ch == IF Len(img.shape) = 3 THEN img.shape[3] ELSE 1
        wout == sz[1]
        hout == sz[2]
        srcx(x) == ((2 * x + 1) * win) \div (2 * wout)
        srcy(y) == ((2 * y + 1) * hin) \div (2 * hout)
        at(px, c) == ch * (srcy(px \div wout) * win + srcx(px % wout)) + c + 1
    IN  [dtype |-> "uint8",
         shape |-> IF Len(img.shape) = 3 THEN <<hout, wout, ch>> ELSE <<hout, wout>>,
         vals  |-> [i \in 1..(hout * wout * ch) |->
                      img.vals[at((i - 1) \div ch, (i - 1) % ch)]]]

(***************************************************************************)
(* service/pixel_diff.py: compute_pixel_difference_matrix                  *)
(***************************************************************************)
\* lines 44-45: the edited image as differenced (resized only when sizes differ)
NormalizedEdits(orig_img, edit) ==
    IF size(orig_img) # size(edit) THEN resize_LANCZOS(edit, size(orig_img)) ELSE {edit}

\* a fault: the int8 test lets 128 through
NarrowDiffOffByOne(diff_matrix) ==
    IF SeqMin(diff_matrix.vals) >= Int8Min /\ SeqMax(diff_matrix.vals) <= Int8Max + 1
    THEN astype(diff_matrix, "int8")
    ELSE astype(diff_matrix, "int16")

\* lines 56-65: int8 when every difference fits, int16 otherwise
NarrowDiff(diff_matrix) ==
    IF SeqMin(diff_matrix.vals) >= Int8Min /\ SeqMax(diff_matrix.vals) <= Int8Max
    THEN astype(diff_matrix, "int8")
    ELSE astype(diff_matrix, "int16")

\* lines 48-67, on the RGB rasters of equal size
compute_pixel_difference_matrix(orig_img, edit) ==
    LET orig_array == astype(orig_img, "int16")
        edit_array == astype(edit, "int16")
    IN  NarrowDiff(Sub16(edit_array, orig_array))

(***************************************************************************)
(* service/transformer.py: apply_transformation_matrix.  The warp itself   *)
(* belongs to the external raster library: its result is kept symbolic.    *)
(***************************************************************************)
apply_transformation_matrix(image, matrix) ==
    [warp |-> TRUE, image |-> image, matrix |-> matrix]

(***************************************************************************)
(* service/pixel_diff.py: apply_pixel_difference_matrix                    *)
(***************************************************************************)
\* lines 177-191: a diff of another shape, resized through an 8-bit image
ResizeDiff(diff_array, orig_img) ==
    LET diff_for_pil == astype(clip(AddScalar16(diff_array, PilShift), 0, UInt8Max), "uint8")
        diff_img == resize_NEAREST(diff_for_pil, size(orig_img))
    IN  AddScalar16(astype(diff_img, "int16"), -PilShift)

\* numpy broadcasting in orig_array + diff_array (line 194): an (h, w) array
\* is aligned with the last two axes of (h, w, 3), so it must have one or
\* three columns; an array of the shape itself is taken as it is
broadcasts(shape_from, shape_to) ==
    \/ shape_from = shape_to
    \/ /\ Len(shape_from) = 2
       /\ shape_from[1] \in {1, shape_to[2]}
       /\ shape_from[2] \in {1, shape_to[3]}
broadcast_to(a, shape) ==
    IF a.shape = shape THEN a
    ELSE [dtype |-> a.dtype, shape |-> shape,
          vals  |-> [i \in 1..(shape[1] * shape[2] * shape[3]) |->
                       LET c == (i - 1) % shape[3]
                           x == ((i - 1) \div shape[3]) % shape[2]
                           row == IF a.shape[1] = 1 THEN 0 ELSE x
                           col == IF a.shape[2] = 1 THEN 0 ELSE c
                       IN  a.vals[row * a.shape[2] + col + 1]]]

\* a fault: the sum is narrowed to a signed byte
ApplyDiffSignedByte(orig_img, diff_matrix) ==
    astype(clip(Add16(astype(orig_img, "int16"), astype(diff_matrix, "int16")), 0, UInt8Max),
           "int8")

\* lines 168-201: the pixel-difference path proper
ApplyDiff(orig_img, diff_matrix) ==
    LET orig_array == astype(orig_img, "int16")
        widened == IF diff_matrix.dtype = "int8" THEN astype(diff_matrix, "int16")
                   ELSE diff_matrix
        diff_array == IF orig_array.shape # widened.shape
                      THEN ResizeDiff(widened, orig_img) ELSE widened
        reconstructed_array ==
            clip(Add16(orig_array, broadcast_to(diff_array, orig_array.shape)), 0, UInt8Max)
    IN  astype(reconstructed_array, "uint8")

\* a fault: the sniff looks at the first two dimensions only
ApplyPixelDifferenceMatrixSniffPrefix(orig_img, diff_array) ==
    IF Len(diff_array.shape) >= 2 /\ SubSeq(diff_array.shape, 1, 2) = <<3, 3>>
    THEN apply_transformation_matrix(orig_img, astype(diff_array, "float32"))
    ELSE ApplyDiff(orig_img, diff_array)

\* lines 163-201: the legacy shape sniff, then the pixel-difference path
apply_pixel_difference_matrix(orig_img, diff_array) ==
    IF Len(diff_array.shape) = 2 /\ diff_array.shape = <<3, 3>>
    THEN apply_transformation_matrix(orig_img, astype(diff_array, "float32"))
    ELSE ApplyDiff(orig_img, diff_array)

(***************************************************************************)
(* SpecDiff: one compute, then one apply, on every pair of rasters.        *)
(***************************************************************************)
\* the values the variables of the other specifications rest at
CodecIdle == fs = <<>> /\ lastCodec = [op |-> "none"]
IndexIdle ==
    /\ disk = Absent /\ cache = Absent /\ lastOp = [op |-> "none"] /\ nOps = 0
    /\ writers = <<>>
DiffIdle ==
    /\ original = None /\ edited = None /\ edit_img = None /\ diff = None
    /\ target = None /\ recon = None /\ pcDiff = "idle"

InitDiff ==
    /\ original \in Rasters
    /\ edited \in Rasters
    /\ edit_img = None /\ diff = None /\ target = None /\ recon = None
    /\ pcDiff = "init"
    /\ CodecIdle /\ IndexIdle

\* diff = compute_pixel_difference_matrix(original, edited)
ComputeDiff ==
    /\ pcDiff = "init"
    /\ \E e \in NormalizedEdits(original, edited) :
          /\ edit_img' = e
          /\ diff' = compute_pixel_difference_matrix(original, e)
    /\ pcDiff' = "computed"
    /\ UNCHANGED <<original, edited, target, recon>>
    /\ UNCHANGED codecVars /\ UNCHANGED indexVars

\* recon = apply_pixel_difference_matrix(img, diff), img the original or the
\* edited raster (the latter may have another shape than the diff)
ApplyComputed ==
    /\ pcDiff = "computed"
    /\ \E img \in {original, edited} :
          /\ target' = img
          /\ recon' = apply_pixel_difference_matrix(img, diff)
    /\ pcDiff' = "applied"
    /\ UNCHANGED <<original, edited, edit_img, diff>>
    /\ UNCHANGED codecVars /\ UNCHANGED indexVars

NextDiff == ComputeDiff \/ ApplyComputed

SpecDiff == InitDiff /\ [][NextDiff]_vars

(***************************************************************************)
(* Claims on the pixel-diff engine (checked under SpecDiff).               *)
(***************************************************************************)
\* the differences edited - original in unbounded integers
TrueDifference == [i \in DOMAIN original.vals |-> edit_img.vals[i] - original.vals[i]]
Computed == pcDiff \in {"computed", "applied"}

\* C2: for equal-sized rasters, applying to the original the matrix computed
\* from (original, edited) gives back the edited raster exactly, in every
\* pixel and channel, whether the matrix was narrowed to int8 or kept int16.
C2_ReconstructionFidelity ==
    (pcDiff = "applied" /\ target = original /\ size(original) = size(edited))
        => recon = edited

\* C2 witness: an exact reconstruction through a matrix that stayed int16
C2_Witness ==
    /\ pcDiff = "applied" /\ target = original /\ size(original) = size(edited)
    /\ original # edited
    /\ diff.dtype = "int16"
    /\ recon = edited

\* C8: compute returns an int8 matrix iff every int16 difference lies in
\* [-128,127] (so extremes of exactly -128 and 127 stay int8, and one element
\* of -129 or 128 makes the matrix int16); the element values are the
\* differences in both cases.
C8_DtypeNarrowing ==
    Computed =>
        /\ diff.dtype \in {"int8", "int16"}
        /\ diff.dtype = "int8" <=>
              \A i \in DOMAIN TrueDifference :
                  TrueDifference[i] >= -128 /\ TrueDifference[i] <= 127
        /\ diff.shape = original.shape
        /\ diff.vals = TrueDifference
        /\ (\E i \in DOMAIN TrueDifference : TrueDifference[i] \in {-129, 128})
              => diff.dtype = "int16"

\* C8 witness: extremes of exactly -128 and 127, kept as int8
C8_Witness ==
    /\ pcDiff = "computed"
    /\ SeqMin(TrueDifference) = -128
    /\ SeqMax(TrueDifference) = 127
    /\ diff.dtype = "int8"

(***************************************************************************)
(* Paths, as pathlib splits them: parent directory, stem and suffix of the *)
(* final component.  Files: a .npz container is the ordered list of its    *)
(* (key, array) members; a JSON file is the nested list ndarray.tolist     *)
(* gave, i.e. a shape and Python numbers (int, or float for a float array).*)
(***************************************************************************)
Path(parent, stem, suffix) == [parent |-> parent, stem |-> stem, suffix |-> suffix]

\* Path.with_suffix
with_suffix(p, suffix) == [p EXCEPT !.suffix = suffix]

\* str(path)
PathStr(p) == p.parent \o "/" \o p.stem \o p.suffix

exists(files, p) == p \in DOMAIN files

\* the file system with file p written (created or replaced) with content c
WriteFile(files, p, c) == [q \in DOMAIN files \cup {p} |-> IF q = p THEN c ELSE files[q]]
RemoveFile(files, p) == [q \in DOMAIN files \ {p} |-> files[q]]

\* ndarray.tolist(): Python ints for integer arrays, Python floats otherwise
tolist(a) ==
    [shape |-> a.shape, vals |-> a.vals,
     kind  |-> IF IsFloat(a.dtype) THEN "float64" ELSE "int64"]

\* np.array(nested_list, dtype=dtype)
array_of_list(l, dtype) == astype([dtype |-> l.kind, shape |-> l.shape, vals |-> l.vals], dtype)

\* json.dump(list, f) ... json.load(f): numbers keep their value and their kind
JsonFile(l) == [fmt |-> "json", data |-> l]

\* np.savez_compressed(file, key=array): one member under the keyword's name
NpzFile(key, a) == [fmt |-> "npz", members |-> << [key |-> key, arr |-> a] >>]

\* np.savez_compressed appends ".npz" to a file name that does not end in it
savez_target(p) ==
    IF p.suffix = ".npz" THEN p
    ELSE [p EXCEPT !.stem = p.stem \o p.suffix, !.suffix = ".npz"]

\* the member of a container stored under key, or the first one
NpzHas(file, key) == \E i \in DOMAIN file.members : file.members[i].key = key
NpzGet(file, key) ==
    (CHOOSE i \in DOMAIN file.members : file.members[i].key = key) 

Ok(v) == [ok |-> TRUE, value |-> v]
Err(e) == [ok |-> FALSE, error |-> e]

(***************************************************************************)
(* service/pixel_diff.py: save_pixel_difference_matrix,                    *)
(* load_pixel_difference_matrix                                            *)
(***************************************************************************)
\* lines 75-92: the files after the save
save_pixel_difference_matrix(files, diff_matrix, filepath) ==
    IF filepath.suffix = ".json"
    THEN WriteFile(files, filepath, JsonFile(tolist(diff_matrix)))
    ELSE LET storage_matrix == IF diff_matrix.dtype = "int8"
                               THEN astype(diff_matrix, "int16") ELSE diff_matrix
         IN  WriteFile(files, savez_target(filepath), NpzFile("diff_matrix", storage_matrix))

\* lines 116-118 and 128-129: int16 payloads that fit come back as int8
Renarrow(matrix) ==
    IF matrix.dtype = "int16" /\ AllFitInt8(matrix) THEN astype(matrix, "int8") ELSE matrix

\* a fault: the legacy text sibling is tried before the container
LoadPixelJsonFirst(files, filepath) ==
    LET npz_path == IF filepath.suffix = ".npz" THEN filepath ELSE with_suffix(filepath, ".npz")
        json_path == IF filepath.suffix = ".json" THEN filepath ELSE with_suffix(filepath, ".json")
    IN  IF exists(files, json_path)
        THEN Ok(Renarrow(array_of_list(files[json_path].data, "int16")))
        ELSE IF exists(files, npz_path)
        THEN Ok(Renarrow(files[npz_path].members[1].arr))
        ELSE Err("FileNotFoundError")

\* a fault: the text file is read back as 8-bit values (int8 for int16)
LoadPixelInt8Json(files, filepath) ==
    LET npz_path == IF filepath.suffix = ".npz" THEN filepath ELSE with_suffix(filepath, ".npz")
        json_path == IF filepath.suffix = ".json" THEN filepath ELSE with_suffix(filepath, ".json")
    IN  IF exists(files, npz_path)
        THEN Ok(Renarrow(files[npz_path].members[1].arr))
        ELSE IF exists(files, json_path)
        THEN Ok(Renarrow(array_of_list(files[json_path].data, "int8")))
        ELSE Err("FileNotFoundError")

\* lines 99-132
load_pixel_difference_matrix(files, filepath) ==
    LET npz_path == IF filepath.suffix = ".npz" THEN filepath ELSE with_suffix(filepath, ".npz")
        json_path == IF filepath.suffix = ".json" THEN filepath ELSE with_suffix(filepath, ".json")
    IN  IF exists(files, npz_path)
        THEN LET data == files[npz_path]
             IN  IF NpzHas(data, "diff_matrix")
                 THEN Ok(Renarrow(data.members[NpzGet(data, "diff_matrix")].arr))
                 ELSE IF data.members # <<>>
                 THEN Ok(Renarrow(data.members[1].arr))
                 ELSE Err("ValueError")
        ELSE IF exists(files, json_path)
        THEN Ok(Renarrow(array_of_list(files[json_path].data, "int16")))
        ELSE Err("FileNotFoundError")

(***************************************************************************)
(* service/transformer.py: save_transformation_matrix,                     *)
(* load_transformation_matrix                                              *)
(***************************************************************************)
\* lines 102-112
save_transformation_matrix(files, matrix, filepath) ==
    IF filepath.suffix = ".json"
    THEN WriteFile(files, filepath, JsonFile(tolist(matrix)))
    ELSE WriteFile(files, savez_target(filepath), NpzFile("matrix", matrix))

\* a fault: only the container sibling is looked for
LoadTransformNpzOnly(files, filepath) ==
    LET npz_path == IF filepath.suffix = ".npz" THEN filepath ELSE with_suffix(filepath, ".npz")
    IN  IF exists(files, npz_path) /\ files[npz_path].members # <<>>
        THEN Ok(files[npz_path].members[1].arr)
        ELSE Err("FileNotFoundError")

\* lines 119-143
load_transformation_matrix(files, filepath) ==
    LET npz_path == IF filepath.suffix = ".npz" THEN filepath ELSE with_suffix(filepath, ".npz")
        json_path == IF filepath.suffix = ".json" THEN filepath ELSE with_suffix(filepath, ".json")
    IN  IF exists(files, npz_path)
        THEN LET data == files[npz_path]
             IN  IF NpzHas(data, "matrix")
                 THEN Ok(data.members[NpzGet(data, "matrix")].arr)
                 ELSE IF data.members # <<>>
                 THEN Ok(data.members[1].arr)
                 ELSE Err("ValueError")
        ELSE IF exists(files, json_path)
        THEN Ok(array_of_list(files[json_path].data, "float32"))
        ELSE Err("FileNotFoundError")

(***************************************************************************)
(* SpecCodec: saves, loads and unlinks of artifacts in one directory.      *)
(***************************************************************************)
DiffArray(dtype, vals) == [dtype |-> dtype, shape |-> <<1, 1, 3>>, vals |-> vals]

\* pixel-difference matrices: int8, int16 out of the int8 range, and int16
\* whose values all fit the int8 range
DiffMatrices ==
    { DiffArray("int8", <<-128, 0, 127>>),
      DiffArray("int8", <<0, 0, 0>>),
      DiffArray("int16", <<-129, 0, 128>>),
      DiffArray("int16", <<255, -255, 1>>),
      DiffArray("int16", <<-128, 1, 127>>) }

\* 3x3 float32 transforms with bottom row [0,0,1]: the identity, a
\* translation by fractions of a pixel, a quarter turn with a translation
TransformArray(vals) == [dtype |-> "float32", shape |-> <<3, 3>>, vals |-> vals]
np_eye3 ==
    TransformArray(<<FloatUnit, 0, 0,  0, FloatUnit, 0,  0, 0, FloatUnit>>)
TransformMatrices ==
    { np_eye3,
      TransformArray(<<FloatUnit, 0, 1,  0, FloatUnit, -3,  0, 0, FloatUnit>>),
      TransformArray(<<0, -FloatUnit, 2 * FloatUnit,  FloatUnit, 0, 0,  0, 0, FloatUnit>>) }

CodecSuffixes == {".json", ".npz", ".bin", ""}
CodecPaths == { Path("artifacts", "m", sfx) : sfx \in CodecSuffixes }

\* the sibling of p in the other format
OtherSibling(p) ==
    IF p.suffix = ".json" THEN with_suffix(p, ".npz")
    ELSE IF p.suffix = ".npz" THEN with_suffix(p, ".json")
    ELSE p
IsSave(c) == c.op \in {"save_pixel", "save_transform"}
AfterOf(c) == IF IsSave(c) THEN c ELSE [op |-> "other"]

InitCodec ==
    /\ fs = <<>>
    /\ lastCodec = [op |-> "none"]
    /\ DiffIdle /\ IndexIdle

SavePixel(M, P) ==
    /\ fs' = save_pixel_difference_matrix(fs, M, P)
    /\ lastCodec' = [op |-> "save_pixel", path |-> P, matrix |-> M,
                     sibling |-> exists(fs, OtherSibling(P))]
    /\ UNCHANGED diffVars /\ UNCHANGED indexVars

SaveTransform(M, P) ==
    /\ fs' = save_transformation_matrix(fs, M, P)
    /\ lastCodec' = [op |-> "save_transform", path |-> P, matrix |-> M,
                     sibling |-> exists(fs, OtherSibling(P))]
    /\ UNCHANGED diffVars /\ UNCHANGED indexVars

LoadPixel(P) ==
    /\ lastCodec' = [op |-> "load_pixel", path |-> P,
                     result |-> load_pixel_difference_matrix(fs, P),
                     after |-> AfterOf(lastCodec)]
    /\ UNCHANGED fs
    /\ UNCHANGED diffVars /\ UNCHANGED indexVars

LoadTransform(P) ==
    /\ lastCodec' = [op |-> "load_transform", path |-> P,
                     result |-> load_transformation_matrix(fs, P),
                     after |-> AfterOf(lastCodec)]
    /\ UNCHANGED fs
    /\ UNCHANGED diffVars /\ UNCHANGED indexVars

\* Path.unlink of an artifact file
Unlink(P) ==
    /\ exists(fs, P)
    /\ fs' = RemoveFile(fs, P)
    /\ lastCodec' = [op |-> "unlink", path |-> P]
    /\ UNCHANGED diffVars /\ UNCHANGED indexVars

NextCodec ==
    \/ \E M \in DiffMatrices, P \in CodecPaths : SavePixel(M, P)
    \/ \E M \in TransformMatrices, P \in CodecPaths : SaveTransform(M, P)
    \/ \E P \in CodecPaths : LoadPixel(P)
    \/ \E P \in CodecPaths : LoadTransform(P)
    \/ \E P \in DOMAIN fs : Unlink(P)

SpecCodec == InitCodec /\ [][NextCodec]_vars

(***************************************************************************)
(* Claims on the artifact codec (checked under SpecCodec).                 *)
(***************************************************************************)
IsLoad(c) == c.op \in {"load_pixel", "load_transform"}
TextOrBinary(p) == p.suffix \in {".json", ".npz"}

\* a load of path P that directly follows a save to the same P, made when
\* the sibling of P in the other format did not exist
LoadAfterFreshSave(loadOp, saveOp) ==
    /\ lastCodec.op = loadOp
    /\ lastCodec.after.op = saveOp
    /\ lastCodec.after.path = lastCodec.path
    /\ TextOrBinary(lastCodec.path)
    /\ ~lastCodec.after.sibling

\* C1: with no sibling artifact before the save, load(P) after save(M, P)
\* returns the shape and the element values of M, for float32 transforms and
\* int8 / int16 pixel-diff matrices and for the .json and the .npz path; the
\* dtype is that of M, except that an int16 diff whose values all fit
\* [-128,127] comes back as int8.
C1_RoundTrip ==
    /\ LoadAfterFreshSave("load_pixel", "save_pixel") =>
          LET M == lastCodec.after.matrix
              r == lastCodec.result
          IN  /\ r.ok
              /\ r.value.shape = M.shape
              /\ r.value.vals = M.vals
              /\ r.value.dtype =
                    (IF \A i \in DOMAIN M.vals : M.vals[i] \in -128..127
                     THEN "int8" ELSE M.dtype)
    /\ LoadAfterFreshSave("load_transform", "save_transform") =>
          lastCodec.result = Ok(lastCodec.after.matrix)

\* C1 witness: an int16 matrix out of the int8 range came back from the text
\* format unchanged
C1_Witness ==
    /\ LoadAfterFreshSave("load_pixel", "save_pixel")
    /\ lastCodec.path.suffix = ".json"
    /\ lastCodec.after.matrix.dtype = "int16"
    /\ \E i \in DOMAIN lastCodec.after.matrix.vals : lastCodec.after.matrix.vals[i] > 127
    /\ lastCodec.result = Ok(lastCodec.after.matrix)

\* what a loader makes of a file: the first member of a container, the
\* parsed list of a text file; the pixel loader reads integers and narrows
DecodedBy(op, file) ==
    LET raw == IF file.fmt = "npz" THEN file.members[1].arr
               ELSE array_of_list(file.data, IF op = "load_pixel" THEN "int16" ELSE "float32")
    IN  IF op = "load_pixel" /\ raw.dtype = "int16"
           /\ (\A i \in DOMAIN raw.vals : raw.vals[i] \in -128..127)
        THEN [raw EXCEPT !.dtype = "int8"]
        ELSE raw

\* C7: whatever the suffix of the requested path P, a load returns the
\* content of the .npz sibling of P whenever that file exists, and the content
\* of the .json sibling only when the .npz sibling is absent.
C7_LoadPrecedence ==
    IsLoad(lastCodec) =>
        LET npz == with_suffix(lastCodec.path, ".npz")
            json == with_suffix(lastCodec.path, ".json")
        IN  /\ exists(fs, npz) =>
                  lastCodec.result = Ok(DecodedBy(lastCodec.op, fs[npz]))
            /\ (~exists(fs, npz) /\ exists(fs, json)) =>
                  lastCodec.result = Ok(DecodedBy(lastCodec.op, fs[json]))

\* C7 witness: both siblings exist with different contents, the artifact is
\* requested by its .json name, and the content of the .npz file came back
C7_Witness ==
    /\ lastCodec.op = "load_pixel"
    /\ lastCodec.path.suffix = ".json"
    /\ exists(fs, lastCodec.path)
    /\ exists(fs, with_suffix(lastCodec.path, ".npz"))
    /\ fs[lastCodec.path].data.vals # fs[with_suffix(lastCodec.path, ".npz")].members[1].arr.vals
    /\ lastCodec.result.ok
    /\ lastCodec.result.value.vals = fs[with_suffix(lastCodec.path, ".npz")].members[1].arr.vals

\* a load of path P that directly follows a save to the same text-format
\* path P, made while the binary sibling of P was on disk
LoadAfterSaveOverStale(loadOp, saveOp) ==
    /\ lastCodec.op = loadOp
    /\ lastCodec.after.op = saveOp
    /\ lastCodec.after.path = lastCodec.path
    /\ lastCodec.path.suffix = ".json"
    /\ lastCodec.after.sibling

\* C29: after save(M, P) with P a .json path, load(P) returns M (up to the
\* narrowing of an int16 diff that fits int8) even when a .npz sibling of P
\* was on disk before the save.
C29_RoundTripStaleSibling ==
    /\ LoadAfterSaveOverStale("load_pixel", "save_pixel") =>
          LET M == lastCodec.after.matrix
              r == lastCodec.result
          IN  /\ r.ok
              /\ r.value.shape = M.shape
              /\ r.value.vals = M.vals
    /\ LoadAfterSaveOverStale("load_transform", "save_transform") =>
          lastCodec.result = Ok(lastCodec.after.matrix)

(***************************************************************************)
(* service/versions.py: the path layout                                    *)
(***************************************************************************)
Versions == 1..MaxVersion
StemSeq == << "img_a", "img_b" >>
Stems == { StemSeq[i] : i \in DOMAIN StemSeq }

\* lines 11-15: transformations/<image_stem>
init_image_version_dir(image_stem) == "transformations/" \o image_stem

\* a fault: the name of the legacy text artifact is given
MatrixFilenameJson(from_version, to_version) ==
    [stem |-> "v" \o ToString(from_version) \o "_to_v" \o ToString(to_version) \o "_matrix",
     suffix |-> ".json"]

\* lines 18-20
matrix_filename(from_version, to_version) ==
    [stem |-> "v" \o ToString(from_version) \o "_to_v" \o ToString(to_version) \o "_matrix",
     suffix |-> ".npz"]

\* lines 23-24
metrics_filenames(version) ==
    << [stem |-> "v" \o ToString(version) \o "_rgb", suffix |-> ".json"],
       [stem |-> "v" \o ToString(version) \o "_intensity", suffix |-> ".json"] >>

\* lines 27-29
matrix_path(image_stem, from_version, to_version) ==
    LET name == matrix_filename(from_version, to_version)
    IN  Path(init_image_version_dir(image_stem), name.stem, name.suffix)

\* a fault: the metrics are put beside the matrices
MetricsPathsInBase(image_stem, version) ==
    LET base == init_image_version_dir(image_stem)
        names == metrics_filenames(version)
    IN  << Path(base, names[1].stem, names[1].suffix),
           Path(base, names[2].stem, names[2].suffix) >>

\* lines 32-35
metrics_paths(image_stem, version) ==
    LET base == init_image_version_dir(image_stem) \o "/metrics"
        names == metrics_filenames(version)
    IN  << Path(base, names[1].stem, names[1].suffix),
           Path(base, names[2].stem, names[2].suffix) >>

(***************************************************************************)
(* service/index_db.py: the index document and its process-wide cache.     *)
(* An index is [images |-> stem -> [versions, matrices]].  The file holds  *)
(* its JSON text written with sort_keys: the entries in key order.         *)
(***************************************************************************)
\* f"{from_version}->{to_version}"
MatrixKey(from_version, to_version) == ToString(from_version) \o "->" \o ToString(to_version)

\* the edge keys in the order of their text
KeySeq ==
    [k \in 1..(MaxVersion * MaxVersion) |->
        MatrixKey(((k - 1) \div MaxVersion) + 1, ((k - 1) % MaxVersion) + 1)]

_empty_index == [images |-> <<>>]

\* the members of set S in the order of sequence order
InOrder(S, order) == SelectSeq(order, LAMBDA x : x \in S)

\* json.dump(index, f, sort_keys=True)
json_dump(index) ==
    LET stems == InOrder(DOMAIN index.images, StemSeq)
        entry(st) ==
            LET e == index.images[st]
                keys == InOrder(DOMAIN e.matrices, KeySeq)
            IN  [name |-> st, versions |-> e.versions,
                 matrices |-> [i \in DOMAIN keys |-> <<keys[i], e.matrices[keys[i]]>>]]
    IN  [images |-> [i \in DOMAIN stems |-> entry(stems[i])]]

\* json.load(f)
json_load(doc) ==
    LET names == { doc.images[i].name : i \in DOMAIN doc.images }
        entryOf(st) == doc.images[CHOOSE i \in DOMAIN doc.images : doc.images[i].name = st]
        dict(pairs) ==
            [k \in { pairs[i][1] : i \in DOMAIN pairs } |->
                pairs[CHOOSE i \in DOMAIN pairs : pairs[i][1] = k][2]]
    IN  [images |-> [st \in names |->
            [versions |-> entryOf(st).versions, matrices |-> dict(entryOf(st).matrices)]]]

\* lines 24-28: init_index writes the empty document when the file is missing
init_index(file) == IF file = Absent THEN json_dump(_empty_index) ELSE file

\* a fault: a forced reload is answered from the cache
LoadIndexIgnoresForce(cached, file, force_reload) ==
    IF cached # Absent
    THEN [cache |-> cached, disk |-> file, ret |-> cached, read |-> FALSE]
    ELSE LET f == init_index(file)
         IN  [cache |-> json_load(f), disk |-> f, ret |-> json_load(f), read |-> TRUE]

\* a fault: every load reads the file
LoadIndexAlwaysReads(cached, file, force_reload) ==
    LET f == init_index(file)
    IN  [cache |-> json_load(f), disk |-> f, ret |-> json_load(f), read |-> TRUE]

\* lines 31-51: [cache, disk, ret, read] after load_index(force_reload); the
\* dirty flag is never set by the program, so it is always False
load_index(cached, file, force_reload) ==
    IF cached # Absent /\ ~force_reload
    THEN [cache |-> cached, disk |-> file, ret |-> cached, read |-> FALSE]
    ELSE LET f == init_index(file)
         IN  [cache |-> json_load(f), disk |-> f, ret |-> json_load(f), read |-> TRUE]

\* a fault: the document is merged into the one in the file
SaveIndexMerging(cached, file, index) ==
    LET old == IF file = Absent THEN _empty_index ELSE json_load(file)
        Rng(q) == { q[i] : i \in DOMAIN q }
        Entry(d, st) == IF st \in DOMAIN d.images THEN d.images[st]
                        ELSE [versions |-> <<>>, matrices |-> <<>>]
        merged ==
            [images |-> [st \in DOMAIN old.images \cup DOMAIN index.images |->
                [versions |-> InOrder(Rng(Entry(old, st).versions)
                                          \cup Rng(Entry(index, st).versions),
                                      [i \in 1..(MaxVersion + 1) |-> i]),
                 matrices |-> [k \in DOMAIN Entry(old, st).matrices
                                        \cup DOMAIN Entry(index, st).matrices |->
                                  IF k \in DOMAIN Entry(index, st).matrices
                                  THEN Entry(index, st).matrices[k]
                                  ELSE Entry(old, st).matrices[k]]]]]
    IN  [cache |-> merged, disk |-> json_dump(merged)]

\* a fault: the file is written and the cache is left as it was
SaveIndexStaleCache(cached, file, index) ==
    [cache |-> cached, disk |-> json_dump(index)]

\* lines 54-64: [cache, disk] after save_index(index)
save_index(cached, file, index) ==
    [cache |-> index, disk |-> json_dump(index)]

\* list.sort() of a list of integers without duplicates
RECURSIVE sort(_)
sort(s) ==
    IF s = <<>> THEN <<>>
    ELSE LET m == SeqMin(s)
             rest == SelectSeq(s, LAMBDA x : x # m)
         IN  <<m>> \o sort(rest)

contains(s, x) == \E i \in DOMAIN s : s[i] = x

\* a fault: the default replaces the value the key has
SetDefaultOverwrites(d, k, v) == [x \in DOMAIN d \cup {k} |-> IF x = k THEN v ELSE d[x]]

\* dict.setdefault and item assignment
setdefault(d, k, v) == IF k \in DOMAIN d THEN d ELSE [x \in DOMAIN d \cup {k} |-> IF x = k THEN v ELSE d[x]]
setitem(d, k, v) == [x \in DOMAIN d \cup {k} |-> IF x = k THEN v ELSE d[x]]

\* a fault: only None is false, the empty string passes the test
TruthyNotNone(x) == x # None

\* "if matrix_key and matrix_path": None and the empty string are false
truthy(x) == x # None /\ x # ""

\* a fault: the version is appended and the list is left unsorted
MutateEntryNoSort(index, image_stem, version, matrix_key, matrix_path_str) ==
    LET images == setdefault(index.images, image_stem, [versions |-> <<>>, matrices |-> <<>>])
        entry == images[image_stem]
        versions == IF ~contains(entry.versions, version)
                    THEN Append(entry.versions, version) ELSE entry.versions
        matrices == IF truthy(matrix_key) /\ truthy(matrix_path_str)
                    THEN setitem(entry.matrices, matrix_key, matrix_path_str)
                    ELSE entry.matrices
    IN  [images |-> setitem(images, image_stem, [versions |-> versions, matrices |-> matrices])]

\* a fault: the version is appended without the membership test
MutateEntryNoTest(index, image_stem, version, matrix_key, matrix_path_str) ==
    LET images == setdefault(index.images, image_stem, [versions |-> <<>>, matrices |-> <<>>])
        entry == images[image_stem]
        versions == Append(entry.versions, version)
        matrices == IF truthy(matrix_key) /\ truthy(matrix_path_str)
                    THEN setitem(entry.matrices, matrix_key, matrix_path_str)
                    ELSE entry.matrices
    IN  [images |-> setitem(images, image_stem, [versions |-> versions, matrices |-> matrices])]

\* a fault: the mapping is written only when the version is new
MutateEntryNestedMapping(index, image_stem, version, matrix_key, matrix_path_str) ==
    LET images == setdefault(index.images, image_stem, [versions |-> <<>>, matrices |-> <<>>])
        entry == images[image_stem]
        fresh == ~contains(entry.versions, version)
        versions == IF fresh THEN sort(Append(entry.versions, version)) ELSE entry.versions
        matrices == IF fresh /\ truthy(matrix_key) /\ truthy(matrix_path_str)
                    THEN setitem(entry.matrices, matrix_key, matrix_path_str)
                    ELSE entry.matrices
    IN  [images |-> setitem(images, image_stem, [versions |-> versions, matrices |-> matrices])]

\* lines 75-84: the index dict after the in-place updates of add_image_version
MutateEntry(index, image_stem, version, matrix_key, matrix_path_str) ==
    LET images == setdefault(index.images, image_stem, [versions |-> <<>>, matrices |-> <<>>])
        entry == images[image_stem]
        versions == IF ~contains(entry.versions, version)
                    THEN sort(Append(entry.versions, version)) ELSE entry.versions
        matrices == IF truthy(matrix_key) /\ truthy(matrix_path_str)
                    THEN setitem(entry.matrices, matrix_key, matrix_path_str)
                    ELSE entry.matrices
    IN  [images |-> setitem(images, image_stem, [versions |-> versions, matrices |-> matrices])]

\* lines 67-86: [cache, disk, ret] after add_image_version; the dict that
\* load_index returned is the cache itself and is updated in place
add_image_version(cached, file, image_stem, version, matrix_key, matrix_path_str) ==
    LET loaded == load_index(cached, file, FALSE)
        index == MutateEntry(loaded.ret, image_stem, version, matrix_key, matrix_path_str)
        saved == save_index(index, loaded.disk, index)
    IN  [cache |-> saved.cache, disk |-> saved.disk, ret |-> index]

(***************************************************************************)
(* service/extractor.py: the metrics of the edited raster                  *)
(***************************************************************************)
RECURSIVE SeqSum(_)
SeqSum(s) == IF s = <<>> THEN 0 ELSE Head(s) + SeqSum(Tail(s))

NPixels(img) == img.shape[1] * img.shape[2]
Channel(img, c) == [k \in 1..NPixels(img) |-> img.vals[3 * (k - 1) + c]]

\* lines 32-37: the channel means, in millionths as the workflow prints them
compute_average_rgb(img) ==
    [c \in 1..3 |-> (2 * 1000000 * SeqSum(Channel(img, c)) + NPixels(img)) \div (2 * NPixels(img))]

\* Image.convert('L'): the ITU-R 601-2 luma of a pixel
Luma(img, k) ==
    (19595 * img.vals[3 * (k - 1) + 1] + 38470 * img.vals[3 * (k - 1) + 2]
        + 7471 * img.vals[3 * (k - 1) + 3] + 32768) \div 65536

\* lines 59-66: the 256-bin histogram, held as its populated bins
extract_intensity_histogram(img) ==
    LET grays == { Luma(img, k) : k \in 1..NPixels(img) }
    IN  [bins |-> 256,
         counts |-> [g \in grays |-> Cardinality({ k \in 1..NPixels(img) : Luma(img, k) = g })]]

(***************************************************************************)
(* The raster files the workflows read.                                    *)
(***************************************************************************)
OriginalPaths == { "images/original/photo.png" }
EditedPaths == { "uploads/edit_1.png", "uploads/edit_2.png" }
ImageStore ==
    [p \in OriginalPaths \cup EditedPaths |->
        CASE p = "images/original/photo.png" -> Image(<< <<0, 128, 0>> >>)
          [] p = "uploads/edit_1.png"        -> Image(<< <<128, 1, 0>> >>)
          [] p = "uploads/edit_2.png"        -> Image(<< <<255, 255, 255>> >>)]

\* the path of an original that is not there
MissingOriginalPath == "images/original/gone.png"

\* Image.open / cv2.imread find the file
readable(p) == p \in DOMAIN ImageStore

\* what the feature library hands back during one estimation: whether
\* cv2.imread found each image, each image's descriptors (None or some), the
\* number of cross-checked matches, and the 2x3 matrix of
\* cv2.estimateAffinePartial2D (Absent for None)
AffineArray(vals) == [dtype |-> "float64", shape |-> <<2, 3>>, vals |-> vals]
AffineShift == AffineArray(<<FloatUnit, 0, 1,  0, FloatUnit, -3>>)
FeatureOutcomes(affines) ==
    { [img1 |-> "image", img2 |-> "image", des1 |-> d1, des2 |-> d2,
       matches |-> n, matrix |-> m] :
        d1 \in {None, "descriptors"}, d2 \in {None, "descriptors"},
        n \in {MinMatches - 1, MinMatches}, m \in {Absent} \cup affines }

\* np.vstack([matrix, [0, 0, 1]])
np_vstack_row001(matrix) ==
    [dtype |-> matrix.dtype, shape |-> <<3, 3>>,
     vals |-> matrix.vals \o <<0, 0, FloatUnit>>]

\* a fault: three matches are taken for enough
ComputeTransformationThreeMatches(o) ==
    IF o.img1 = None \/ o.img2 = None THEN Err("ValueError")
    ELSE IF o.des1 = None \/ o.des2 = None THEN Ok(np_eye3)
    ELSE IF o.matches < MinMatches - 1 THEN Ok(np_eye3)
    ELSE IF o.matrix = Absent THEN Ok(np_eye3)
    ELSE Ok(astype(np_vstack_row001(o.matrix), "float32"))

\* service/transformer.py lines 24-65, for one outcome of the library calls
ComputeTransformation(o) ==
    IF o.img1 = None \/ o.img2 = None THEN Err("ValueError")
    ELSE IF o.des1 = None \/ o.des2 = None THEN Ok(np_eye3)
    ELSE IF o.matches < MinMatches THEN Ok(np_eye3)
    ELSE IF o.matrix = Absent THEN Ok(np_eye3)
    ELSE Ok(astype(np_vstack_row001(o.matrix), "float32"))

\* service/transformer.py lines 34-65: what the feature estimator may return:
\* the identity fallback, or a fitted 2x3 matrix over the row [0,0,1]
compute_transformation_matrix(img1, img2) ==
    { ComputeTransformation(o).value : o \in FeatureOutcomes({AffineShift}) }

(***************************************************************************)
(* service/pixel_versioning.py, service/versioning.py: the workflows.      *)
(* Each gives [ok, fs, cache, disk, ret] for the matrix it computed.       *)
(***************************************************************************)
\* a fault: the from-version is registered in place of the to-version
RegisterFromVersion(cached, file, image_stem, from_version, to_version, m_path) ==
    add_image_version(cached, file, image_stem, from_version,
                      MatrixKey(from_version, to_version), PathStr(m_path))

\* pixel_versioning.py lines 44-46, versioning.py lines 48-50
RegisterEdge(cached, file, image_stem, from_version, to_version, m_path) ==
    add_image_version(cached, file, image_stem, to_version,
                      MatrixKey(from_version, to_version), PathStr(m_path))

\* a fault: the diff workflow keeps its artifact in the legacy text file
RecordPixelVersionJsonArtifact(files, cached, file, image_stem, from_version, to_version, diff_matrix) ==
    LET matrix_file_path ==
            with_suffix(matrix_path(image_stem, from_version, to_version), ".json")
        files1 == save_pixel_difference_matrix(files, diff_matrix, matrix_file_path)
        idx == RegisterEdge(cached, file, image_stem, from_version, to_version, matrix_file_path)
    IN  [ok |-> TRUE, fs |-> files1, cache |-> idx.cache, disk |-> idx.disk,
         ret |-> [matrix_path |-> matrix_file_path]]

\* pixel_versioning.py lines 37-50
record_pixel_version(files, cached, file, image_stem, from_version, to_version, diff_matrix) ==
    LET matrix_file_path == matrix_path(image_stem, from_version, to_version)
        files1 == save_pixel_difference_matrix(files, diff_matrix, matrix_file_path)
        idx == RegisterEdge(cached, file, image_stem, from_version, to_version, matrix_file_path)
    IN  [ok |-> TRUE, fs |-> files1, cache |-> idx.cache, disk |-> idx.disk,
         ret |-> [matrix_path |-> matrix_file_path]]

\* versioning.py lines 28-56
record_new_version(files, cached, file, image_stem, from_version, to_version, matrix, edited_img) ==
    LET m_path == matrix_path(image_stem, from_version, to_version)
        files1 == save_transformation_matrix(files, matrix, m_path)
        rgb == compute_average_rgb(edited_img)
        hist == extract_intensity_histogram(edited_img)
        mp == metrics_paths(image_stem, to_version)
        files2 == WriteFile(files1, mp[1], [fmt |-> "text", rgb |-> rgb])
        files3 == WriteFile(files2, mp[2], [fmt |-> "text", hist |-> hist])
        idx == RegisterEdge(cached, file, image_stem, from_version, to_version, m_path)
    IN  [ok |-> TRUE, fs |-> files3, cache |-> idx.cache, disk |-> idx.disk,
         ret |-> [matrix_path |-> m_path, rgb_metrics_path |-> mp[1],
                  intensity_metrics_path |-> mp[2]]]

(***************************************************************************)
(* Spec: one process working on the index and the artifacts.               *)
(***************************************************************************)
\* the edges recorded: from the original (the web upload records every version
\* from version 1) and from a version to its successor (the CLI's usual call)
Edges == { e \in Versions \X Versions : e[1] = 1 \/ e[2] = e[1] + 1 }
EdgeKeys == { MatrixKey(e[1], e[2]) : e \in Edges }
LegacyPathStr == "transformations/img_001/v1_to_v2_matrix.json"

\* the (matrix_key, matrix_path) arguments of add_image_version: both
\* omitted, both given, and one of the two given
KeyPathArgs(version) ==
    { <<None, None>>, <<None, LegacyPathStr>>, <<MatrixKey(1, version), None>> }
        \cup { <<k, LegacyPathStr>> : k \in EdgeKeys }

\* documents handed to save_index
SavedIndexes ==
    { _empty_index,
      [images |-> [st \in {"img_a"} |-> [versions |-> <<1>>, matrices |-> <<>>]]] }

Init ==
    /\ fs = <<>>
    /\ disk = Absent
    /\ cache = Absent
    /\ lastOp = [op |-> "none"]
    /\ nOps = 0
    /\ writers = <<>>
    /\ DiffIdle
    /\ lastCodec = [op |-> "none"]

Idle == UNCHANGED diffVars /\ UNCHANGED lastCodec /\ UNCHANGED writers

\* the same workflow ran for the same edge in the call before
IsRerun(op, stem, f, t) ==
    /\ lastOp.op = op
    /\ lastOp.ok
    /\ lastOp.stem = stem /\ lastOp.from = f /\ lastOp.to = t

\* the index lists the version for the collection
HasVersion(index, stem, version) ==
    stem \in DOMAIN index.images /\ contains(index.images[stem].versions, version)

\* the write replaced a file that held something else
Overwrites(before, after, p) == exists(before, p) /\ before[p] # after[p]

LoadIndex(force_reload, bound) ==
    /\ nOps < bound
    /\ LET r == load_index(cache, disk, force_reload)
       IN  /\ cache' = r.cache
           /\ disk' = r.disk
           /\ lastOp' = [op |-> "load_index", force |-> force_reload,
                         ret |-> r.ret, read |-> r.read]
    /\ nOps' = nOps + 1
    /\ UNCHANGED fs /\ Idle

SaveIndex(index, bound) ==
    /\ nOps < bound
    /\ LET r == save_index(cache, disk, index)
       IN  /\ cache' = r.cache
           /\ disk' = r.disk
    /\ lastOp' = [op |-> "save_index", index |-> index,
                  changed |-> cache # Absent /\ cache # index]
    /\ nOps' = nOps + 1
    /\ UNCHANGED fs /\ Idle

AddImageVersion(stem, version, key, path, bound) ==
    /\ nOps < bound
    /\ LET r == add_image_version(cache, disk, stem, version, key, path)
       IN  /\ cache' = r.cache
           /\ disk' = r.disk
           /\ lastOp' = [op |-> "add_image_version", stem |-> stem, version |-> version,
                         key |-> key, path |-> path, ret |-> r.ret,
                         had |-> HasVersion(load_index(cache, disk, FALSE).ret,
                                            stem, version)]
    /\ nOps' = nOps + 1
    /\ UNCHANGED fs /\ Idle

RecordPixelVersion(stem, f, t, original_image_path, edited_image_path) ==
    /\ nOps < MaxOps
    /\ nOps' = nOps + 1
    /\ Idle
    /\ IF readable(original_image_path) /\ readable(edited_image_path)
       THEN \E e \in NormalizedEdits(ImageStore[original_image_path],
                                     ImageStore[edited_image_path]) :
              LET diff_matrix ==
                      compute_pixel_difference_matrix(ImageStore[original_image_path], e)
                  r == record_pixel_version(fs, cache, disk, stem, f, t, diff_matrix)
              IN  /\ fs' = r.fs /\ cache' = r.cache /\ disk' = r.disk
                  /\ lastOp' = [op |-> "record_pixel_version", ok |-> TRUE,
                                stem |-> stem, from |-> f, to |-> t,
                                original |-> original_image_path,
                                matrix |-> diff_matrix, ret |-> r.ret,
                                rerun |-> IsRerun("record_pixel_version", stem, f, t),
                                overwrote |-> Overwrites(fs, r.fs, r.ret.matrix_path)]
       ELSE /\ UNCHANGED <<fs, cache, disk>>
            /\ lastOp' = [op |-> "record_pixel_version", ok |-> FALSE,
                          stem |-> stem, from |-> f, to |-> t,
                          original |-> original_image_path,
                          error |-> "FileNotFoundError"]

RecordNewVersion(stem, f, t, original_image_path, edited_image_path) ==
    /\ nOps < MaxOps
    /\ nOps' = nOps + 1
    /\ Idle
    /\ IF readable(original_image_path) /\ readable(edited_image_path)
       THEN \E matrix \in compute_transformation_matrix(ImageStore[original_image_path],
                                                        ImageStore[edited_image_path]) :
              LET r == record_new_version(fs, cache, disk, stem, f, t, matrix,
                                          ImageStore[edited_image_path])
              IN  /\ fs' = r.fs /\ cache' = r.cache /\ disk' = r.disk
                  /\ lastOp' = [op |-> "record_new_version", ok |-> TRUE,
                                stem |-> stem, from |-> f, to |-> t,
                                original |-> original_image_path,
                                matrix |-> matrix, ret |-> r.ret,
                                rerun |-> IsRerun("record_new_version", stem, f, t),
                                overwrote |-> Overwrites(fs, r.fs, r.ret.matrix_path)]
       ELSE /\ UNCHANGED <<fs, cache, disk>>
            /\ lastOp' = [op |-> "record_new_version", ok |-> FALSE,
                          stem |-> stem, from |-> f, to |-> t,
                          original |-> original_image_path,
                          error |-> "ValueError"]

Next ==
    \/ \E force \in BOOLEAN : LoadIndex(force, MaxOps)
    \/ \E x \in SavedIndexes : SaveIndex(x, MaxOps)
    \/ \E st \in Stems, v \in Versions :
          \E kp \in KeyPathArgs(v) : AddImageVersion(st, v, kp[1], kp[2], MaxOps)
    \/ \E st \in Stems, ed \in Edges :
          \E o \in OriginalPaths, e \in EditedPaths :
              RecordPixelVersion(st, ed[1], ed[2], o, e)
    \/ \E st \in Stems, ed \in Edges :
          \E o \in OriginalPaths, e \in EditedPaths :
              RecordNewVersion(st, ed[1], ed[2], o, e)

Spec == Init /\ [][Next]_vars

(***************************************************************************)
(* Properties of the index and the recording workflows (Spec)              *)
(***************************************************************************)
\* the index documents a state holds: the cached one and the one in the file
IndexViews ==
    (IF cache # Absent THEN {cache} ELSE {}) \cup
    (IF disk # Absent THEN {json_load(disk)} ELSE {})

IsRecord(op) == op.op \in {"record_pixel_version", "record_new_version"}

StrictlyAscending(s) == \A i, j \in DOMAIN s : i < j => s[i] < s[j]

Occurrences(s, v) == Cardinality({ i \in DOMAIN s : s[i] = v })

\* C3: in every index reached by add_image_version calls and recording
\* workflows, each collection's versions list is sorted ascending and has no
\* duplicates; adding a version a second time leaves it in the list once.
C3_VersionsSortedUnique ==
    \A index \in IndexViews : \A st \in DOMAIN index.images :
        /\ StrictlyAscending(index.images[st].versions)
        /\ (lastOp.op = "add_image_version" /\ lastOp.stem = st)
              => Occurrences(index.images[st].versions, lastOp.version) = 1

\* a version was added to a collection that already listed it
C3_Witness ==
    /\ lastOp.op = "add_image_version"
    /\ lastOp.had
    /\ cache # Absent
    /\ Occurrences(cache.images[lastOp.stem].versions, lastOp.version) = 1

\* every key "f->t" of every collection has t among the collection's versions
KeysHaveVersions(index) ==
    \A st \in DOMAIN index.images :
        \A k \in DOMAIN index.images[st].matrices :
            \E f \in Versions, t \in Versions :
                /\ k = MatrixKey(f, t)
                /\ contains(index.images[st].versions, t)

\* C4 as stated: in every index reached by add_image_version calls with any
\* combination of version, edge key and path arguments and by recording
\* workflows, every key "f->t" of a collection's matrices has its to-version t
\* in the collection's versions.
C4_KeysHaveVersions == \A index \in IndexViews : KeysHaveVersions(index)

\* the call of a step keeps key and version together: a recording workflow, or
\* an add_image_version whose key, when it comes with a path, names the call's
\* version as its to-version
ConsistentCall(op) ==
    \/ IsRecord(op)
    \/ /\ op.op = "add_image_version"
       /\ (truthy(op.key) /\ truthy(op.path))
             => \E f \in Versions : op.key = MatrixKey(f, op.version)

\* C4, amended: the empty index has the property, and every recording workflow
\* and every add_image_version call whose edge key, when supplied with a path,
\* names the call's version as its to-version, carries an index that has the
\* property to an index that has it.
C4_KeysHaveVersionsWhenConsistent ==
    [][ ( /\ \A index \in IndexViews : KeysHaveVersions(index)
          /\ ConsistentCall(lastOp') )
        => (\A index \in IndexViews : KeysHaveVersions(index))' ]_vars

\* an add_image_version call with a key and a path for its own version has
\* put the mapping into the index
C4_Witness ==
    /\ lastOp.op = "add_image_version"
    /\ truthy(lastOp.key) /\ truthy(lastOp.path)
    /\ ConsistentCall(lastOp)
    /\ cache # Absent
    /\ lastOp.key \in DOMAIN cache.images[lastOp.stem].matrices
    /\ KeysHaveVersions(cache)

\* the index holds the edge of the recorded workflow under the returned path
EdgeRecorded(index, op) ==
    /\ op.stem \in DOMAIN index.images
    /\ contains(index.images[op.stem].versions, op.to)
    /\ MatrixKey(op.from, op.to) \in DOMAIN index.images[op.stem].matrices
    /\ index.images[op.stem].matrices[MatrixKey(op.from, op.to)]
          = PathStr(op.ret.matrix_path)

\* C5: after a recording workflow for (stem, from, to) has returned, every
\* artifact path it returned exists, the index entry of stem lists to among
\* its versions, and its matrices map "from->to" to the returned matrix path.
C5_RecordPostcondition ==
    (IsRecord(lastOp) /\ lastOp.ok) =>
        /\ \A name \in DOMAIN lastOp.ret : exists(fs, lastOp.ret[name])
        /\ cache # Absent /\ disk # Absent
        /\ \A index \in IndexViews : EdgeRecorded(index, lastOp)

\* record_new_version has returned its three paths for an edge from a version
\* after the first
C5_Witness ==
    /\ lastOp.op = "record_new_version" /\ lastOp.ok
    /\ lastOp.from = 1 /\ lastOp.to = 2
    /\ Cardinality(DOMAIN lastOp.ret) = 3
    /\ EdgeRecorded(cache, lastOp)

\* the matrix a reader gets from the artifact of a workflow
StoredMatrix(files, op) ==
    IF op.op = "record_pixel_version"
    THEN load_pixel_difference_matrix(files, op.ret.matrix_path)
    ELSE load_transformation_matrix(files, op.ret.matrix_path)

\* C6: a recording workflow run again for the same (stem, from, to) leaves the
\* index as the first run left it, with to once in versions and one "from->to"
\* mapping to the same artifact path, and the artifact at that path holds the
\* matrix of the second run.
C6_RerunIdempotent ==
    [][ ( /\ IsRecord(lastOp) /\ lastOp.ok
          /\ IsRecord(lastOp') /\ lastOp'.ok
          /\ lastOp'.op = lastOp.op /\ lastOp'.stem = lastOp.stem
          /\ lastOp'.from = lastOp.from /\ lastOp'.to = lastOp.to )
        => /\ cache' = cache /\ disk' = disk
           /\ lastOp'.ret = lastOp.ret
           /\ Occurrences(cache'.images[lastOp.stem].versions, lastOp.to) = 1
           /\ EdgeRecorded(cache', lastOp')
           /\ StoredMatrix(fs', lastOp') = Ok(lastOp'.matrix) ]_vars

\* the second run of a workflow replaced the artifact of the first by another
C6_Witness ==
    /\ IsRecord(lastOp) /\ lastOp.ok
    /\ lastOp.rerun /\ lastOp.overwrote
    /\ StoredMatrix(fs, lastOp) = Ok(lastOp.matrix)

\* C10: after save_index(x) the file holds x and load_index() without
\* force_reload returns x; and after every completed save_index,
\* add_image_version or recording workflow of a process that alone writes the
\* file, the cached index equals the index in the file.
C10_PersistRefreshesCache ==
    /\ lastOp.op = "save_index" =>
          /\ disk # Absent /\ json_load(disk) = lastOp.index
          /\ load_index(cache, disk, FALSE).ret = lastOp.index
          /\ ~load_index(cache, disk, FALSE).read
    /\ (lastOp.op \in {"save_index", "add_image_version"} \/ (IsRecord(lastOp) /\ lastOp.ok))
          => /\ cache # Absent /\ disk # Absent
             /\ cache = json_load(disk)

\* save_index was handed a document other than the one cached before
C10_Witness ==
    /\ lastOp.op = "save_index"
    /\ lastOp.changed
    /\ cache = lastOp.index


(***************************************************************************)
(* SpecCache: the cache of one process while other processes and editors   *)
(* rewrite state/index.db.                                                 *)
(***************************************************************************)
\* documents another process may have written
ExternalIndexes ==
    SavedIndexes \cup
    { [images |-> [st \in {"img_b"} |->
          [versions |-> <<1, 2>>,
           matrices |-> [k \in {MatrixKey(1, 2)} |-> LegacyPathStr]]]] }

ExternalEdit(index) ==
    /\ nOps < MaxCacheOps
    /\ disk # json_dump(index)
    /\ disk' = json_dump(index)
    /\ lastOp' = [op |-> "external_edit"]
    /\ nOps' = nOps + 1
    /\ UNCHANGED <<cache, fs>> /\ Idle

NextCache ==
    \/ \E force \in BOOLEAN : LoadIndex(force, MaxCacheOps)
    \/ \E x \in SavedIndexes : SaveIndex(x, MaxCacheOps)
    \/ \E st \in Stems, v \in Versions : AddImageVersion(st, v, None, None, MaxCacheOps)
    \/ \E x \in ExternalIndexes : ExternalEdit(x)

SpecCache == Init /\ [][NextCache]_vars

(***************************************************************************)
(* Properties of the cache (SpecCache)                                     *)
(***************************************************************************)
\* C9: once the index has been loaded, load_index() without force_reload
\* returns the cached document and does not read the file, whatever another
\* process or an editor has written to it meanwhile; load_index with
\* force_reload returns the document in the file and makes it the cache.
C9_CacheReads ==
    [][ lastOp'.op = "load_index" =>
          /\ (cache # Absent /\ ~lastOp'.force) =>
                /\ lastOp'.ret = cache /\ ~lastOp'.read
                /\ cache' = cache /\ disk' = disk
          /\ lastOp'.force =>
                /\ lastOp'.read /\ disk' # Absent
                /\ disk # Absent => disk' = disk
                /\ lastOp'.ret = json_load(disk')
                /\ cache' = lastOp'.ret ]_vars

\* a load without force_reload returned a document the file no longer holds
C9_Witness ==
    /\ lastOp.op = "load_index"
    /\ ~lastOp.force /\ ~lastOp.read
    /\ disk # Absent
    /\ lastOp.ret # json_load(disk)
    /\ cache = lastOp.ret

(***************************************************************************)
(* SpecWriters: two processes, each with its own _index_cache, run         *)
(* add_image_version on the one state/index.db.  A call is three steps:    *)
(* load_index (line 74), the update of the entry (lines 75-83) and         *)
(* save_index (line 85).                                                   *)
(***************************************************************************)
Writers == { "writer_1", "writer_2" }

\* the arguments a writer calls add_image_version with
WriterArgs ==
    { [stem |-> st, version |-> v, key |-> kp[1], path |-> kp[2]] :
        st \in Stems, v \in Versions,
        kp \in { <<None, None>>, <<MatrixKey(1, 2), LegacyPathStr>> } }

InitWriters ==
    /\ writers = [w \in Writers |->
                    [pc |-> "idle", cache |-> Absent, args |-> None,
                     loaded |-> Absent, overlapped |-> FALSE, calls |-> 0]]
    /\ disk = Absent
    /\ cache = Absent /\ lastOp = [op |-> "none"] /\ nOps = 0
    /\ DiffIdle /\ CodecIdle

WritersIdle == UNCHANGED diffVars /\ UNCHANGED codecVars /\ UNCHANGED <<cache, lastOp>>

\* line 74: index = load_index(); index is the cache object of the process
WriterLoad(w, a) ==
    /\ writers[w].pc = "idle"
    /\ nOps < MaxWriterCalls
    /\ LET r == load_index(writers[w].cache, disk, FALSE)
       IN  /\ disk' = r.disk
           /\ writers' = [writers EXCEPT ![w] =
                 [pc |-> "loaded", cache |-> r.cache, args |-> a,
                  loaded |-> r.ret,
                  overlapped |-> \E o \in Writers \ {w} : writers[o].pc # "idle",
                  calls |-> @.calls + 1]]
    /\ nOps' = nOps + 1
    /\ WritersIdle

\* lines 75-83: the update, made in place on the cached object
WriterMutate(w) ==
    /\ writers[w].pc = "loaded"
    /\ writers' = [writers EXCEPT ![w].pc = "mutated",
                                  ![w].cache = MutateEntry(@, writers[w].args.stem,
                                                  writers[w].args.version,
                                                  writers[w].args.key,
                                                  writers[w].args.path)]
    /\ UNCHANGED <<disk, nOps>>
    /\ WritersIdle

\* line 85: save_index(index)
WriterPersist(w) ==
    /\ writers[w].pc = "mutated"
    /\ LET r == save_index(writers[w].cache, disk, writers[w].cache)
       IN  /\ disk' = r.disk
           /\ writers' = [writers EXCEPT ![w].pc = "idle", ![w].cache = r.cache,
                                         ![w].overlapped =
                                             @ \/ \E o \in Writers \ {w} : writers[o].pc # "idle"]
    /\ UNCHANGED nOps
    /\ WritersIdle

NextWriters ==
    \/ \E w \in Writers, a \in WriterArgs : WriterLoad(w, a)
    \/ \E w \in Writers : WriterMutate(w)
    \/ \E w \in Writers : WriterPersist(w)

SpecWriters == InitWriters /\ [][NextWriters]_vars

(***************************************************************************)
(* Properties of concurrent writers (SpecWriters)                          *)
(***************************************************************************)
\* the versions and the mappings of a document, as sets
VersionFacts(index) ==
    { f \in Stems \X Versions : HasVersion(index, f[1], f[2]) }
MappingFacts(index) ==
    UNION { { <<st, k, index.images[st].matrices[k]>> :
                k \in DOMAIN index.images[st].matrices } :
            st \in DOMAIN index.images }

\* the update a call asks for
UpdateOf(a) == <<a.stem, a.version>>

\* C11: a writer's save_index replaces the whole document by the copy the
\* writer loaded plus its own update, whatever the file holds by then; so two
\* overlapping add_image_version calls can leave a document with the update of
\* only one of the writers.
C11_LastWriterWins ==
    [][ \A w \in Writers :
          (writers[w].pc = "mutated" /\ writers'[w].pc = "idle") =>
              /\ disk' # Absent
              /\ VersionFacts(json_load(disk')) =
                    VersionFacts(writers[w].loaded) \cup {UpdateOf(writers[w].args)}
              /\ MappingFacts(json_load(disk')) \subseteq
                    MappingFacts(writers[w].loaded)
                        \cup {<<writers[w].args.stem, writers[w].args.key,
                                writers[w].args.path>>} ]_vars

\* both writers have completed one call each, the calls overlapped, and the
\* document holds the update of one writer and not that of the other
C11_Witness ==
    \E w \in Writers, o \in Writers :
        /\ w # o
        /\ writers[w].pc = "idle" /\ writers[o].pc = "idle"
        /\ writers[w].calls = 1 /\ writers[o].calls = 1
        /\ writers[w].overlapped /\ writers[o].overlapped
        /\ disk # Absent
        /\ UpdateOf(writers[w].args) \in VersionFacts(json_load(disk))
        /\ UpdateOf(writers[o].args) \notin VersionFacts(json_load(disk))

(***************************************************************************)
(* service/reconstructor.py: reconstruct_version, reconstruct_from_chain.  *)
(* An argument that may be a path or an object carries its kind:           *)
(* [path |-> p] for a str / Path, [image |-> raster] or [array |-> matrix] *)
(* for the object.                                                         *)
(***************************************************************************)
\* isinstance(x, (str, Path))
IsPathArg(x) == "path" \in DOMAIN x

\* transformer.py lines 78-83: Image.open of a path, or the handle itself
OpenImage(image) ==
    IF IsPathArg(image)
    THEN IF readable(image.path) THEN Ok(ImageStore[image.path])
         ELSE Err("FileNotFoundError")
    ELSE Ok(image.image)

\* np.dot of two 3x3 arrays; the entries modelled are exact in float32
np_dot(a, b) ==
    [dtype |-> IF a.dtype = b.dtype THEN a.dtype ELSE "float64",
     shape |-> <<3, 3>>,
     vals  |-> [n \in 1..9 |->
                  LET i == (n - 1) \div 3
                      j == (n - 1) % 3
                  IN  (  a.vals[3 * i + 1] * b.vals[j + 1]
                       + a.vals[3 * i + 2] * b.vals[3 + j + 1]
                       + a.vals[3 * i + 3] * b.vals[6 + j + 1]) \div FloatUnit]]

\* lines 47-52: the matrices of the chain, loaded where they are paths; the
\* first failing load ends the call
RECURSIVE LoadChain(_, _)
LoadChain(files, matrices) ==
    IF matrices = <<>> THEN [ok |-> TRUE, value |-> <<>>, loads |-> 0]
    ELSE LET first == IF IsPathArg(Head(matrices))
                      THEN load_transformation_matrix(files, Head(matrices).path)
                      ELSE Ok(Head(matrices).array)
             n == IF IsPathArg(Head(matrices)) THEN 1 ELSE 0
         IN  IF ~first.ok THEN [ok |-> FALSE, error |-> first.error, loads |-> n]
             ELSE LET rest == LoadChain(files, Tail(matrices))
                  IN  IF ~rest.ok
                      THEN [ok |-> FALSE, error |-> rest.error, loads |-> n + rest.loads]
                      ELSE [ok |-> TRUE, value |-> <<first.value>> \o rest.value,
                            loads |-> n + rest.loads]

\* a fault: each later matrix is multiplied on the right of the accumulator
RECURSIVE ComposeRightMultiplied(_, _)
ComposeRightMultiplied(composed_matrix, rest) ==
    IF rest = <<>> THEN composed_matrix
    ELSE ComposeRightMultiplied(np_dot(composed_matrix, Head(rest)), Tail(rest))

\* lines 56-58: composed_matrix = np.dot(matrix, composed_matrix) over the rest
RECURSIVE Compose(_, _)
Compose(composed_matrix, rest) ==
    IF rest = <<>> THEN composed_matrix
    ELSE Compose(np_dot(Head(rest), composed_matrix), Tail(rest))

\* the warp of an opened image: [ok, value, loads, warps]
Warped(image, matrix, loads) ==
    LET img == OpenImage(image)
    IN  IF ~img.ok THEN [ok |-> FALSE, error |-> img.error, loads |-> loads, warps |-> 0]
        ELSE [ok |-> TRUE, value |-> apply_transformation_matrix(img.value, matrix),
              loads |-> loads, warps |-> 1]

\* lines 12-26
reconstruct_version(files, original_image, matrix) ==
    IF IsPathArg(matrix)
    THEN LET m == load_transformation_matrix(files, matrix.path)
         IN  IF ~m.ok THEN [ok |-> FALSE, error |-> m.error, loads |-> 1, warps |-> 0]
             ELSE Warped(original_image, m.value, 1)
    ELSE Warped(original_image, matrix.array, 0)

\* a fault: the empty chain is warped by the identity
ReconstructEmptyChainWarped(files, original_image, matrices) ==
    IF matrices = <<>> THEN Warped(original_image, np_eye3, 0)
    ELSE LET loaded_matrices == LoadChain(files, matrices)
         IN  IF ~loaded_matrices.ok
             THEN [ok |-> FALSE, error |-> loaded_matrices.error,
                   loads |-> loaded_matrices.loads, warps |-> 0]
             ELSE Warped(original_image,
                         Compose(Head(loaded_matrices.value), Tail(loaded_matrices.value)),
                         loaded_matrices.loads)

\* lines 29-60
reconstruct_from_chain(files, original_image, matrices) ==
    IF matrices = <<>>
    THEN LET img == OpenImage(original_image)
         IN  IF ~img.ok THEN [ok |-> FALSE, error |-> img.error, loads |-> 0, warps |-> 0]
             ELSE [ok |-> TRUE, value |-> img.value, loads |-> 0, warps |-> 0]
    ELSE LET loaded_matrices == LoadChain(files, matrices)
         IN  IF ~loaded_matrices.ok
             THEN [ok |-> FALSE, error |-> loaded_matrices.error,
                   loads |-> loaded_matrices.loads, warps |-> 0]
             ELSE Warped(original_image,
                         Compose(Head(loaded_matrices.value), Tail(loaded_matrices.value)),
                         loaded_matrices.loads)

(***************************************************************************)
(* SpecChain: one reconstruction call over stored and in-memory matrices.  *)
(***************************************************************************)
\* a quarter turn with a translation, a translation by a fraction of a pixel,
\* a scaling by two: no two of them commute
ChainTurn  ==
    TransformArray(<<0, -FloatUnit, 2 * FloatUnit,  FloatUnit, 0, 0,  0, 0, FloatUnit>>)
ChainShift ==
    TransformArray(<<FloatUnit, 0, 1,  0, FloatUnit, -3,  0, 0, FloatUnit>>)
ChainScale ==
    TransformArray(<<2 * FloatUnit, 0, 0,  0, 2 * FloatUnit, 0,  0, 0, FloatUnit>>)

ChainNpzPath  == Path("artifacts", "turn", ".npz")
ChainJsonPath == Path("artifacts", "scale", ".json")
ChainLostPath == Path("artifacts", "lost", ".npz")

\* the artifacts present: saved by save_transformation_matrix
ChainStore ==
    save_transformation_matrix(
        save_transformation_matrix(<<>>, ChainTurn, ChainNpzPath),
        ChainScale, ChainJsonPath)

ChainItems ==
    { [array |-> ChainTurn], [array |-> ChainShift],
      [path |-> ChainNpzPath], [path |-> ChainJsonPath], [path |-> ChainLostPath] }

RECURSIVE ChainsOfLen(_)
ChainsOfLen(n) ==
    IF n = 0 THEN { <<>> }
    ELSE { <<m>> \o c : m \in ChainItems, c \in ChainsOfLen(n - 1) }
Chains == UNION { ChainsOfLen(n) : n \in 0..MaxChain }

\* the original: a raster handle, the path of a raster, a path of nothing
ChainOriginals ==
    { [image |-> Image(<<Pixels_first>>)] : Pixels_first \in Pixels }
        \cup { [path |-> p] : p \in OriginalPaths }
        \cup { [path |-> MissingOriginalPath] }

InitChain ==
    /\ fs = ChainStore
    /\ lastCodec = [op |-> "none"]
    /\ lastOp = [op |-> "none"]
    /\ disk = Absent /\ cache = Absent /\ nOps = 0 /\ writers = <<>>
    /\ DiffIdle

ChainIdle ==
    UNCHANGED diffVars /\ UNCHANGED <<fs, lastCodec, disk, cache, nOps, writers>>

ReconstructVersion(original_image, matrix) ==
    /\ lastOp.op = "none"
    /\ lastOp' = [op |-> "reconstruct_version", original_image |-> original_image,
                  matrices |-> <<matrix>>,
                  ret |-> reconstruct_version(fs, original_image, matrix)]
    /\ ChainIdle

ReconstructFromChain(original_image, matrices) ==
    /\ lastOp.op = "none"
    /\ lastOp' = [op |-> "reconstruct_from_chain", original_image |-> original_image,
                  matrices |-> matrices,
                  ret |-> reconstruct_from_chain(fs, original_image, matrices)]
    /\ ChainIdle

NextChain ==
    \/ \E o \in ChainOriginals, m \in ChainItems : ReconstructVersion(o, m)
    \/ \E o \in ChainOriginals, c \in Chains : ReconstructFromChain(o, c)

SpecChain == InitChain /\ [][NextChain]_vars

(***************************************************************************)
(* Properties of reconstruction (SpecChain)                                *)
(***************************************************************************)
\* Mn * ... * M2 * M1 of a non-empty sequence of matrices
RECURSIVE ChainProduct(_)
ChainProduct(ms) ==
    IF Len(ms) = 1 THEN ms[1]
    ELSE np_dot(ms[Len(ms)], ChainProduct(SubSeq(ms, 1, Len(ms) - 1)))

C13_EmptyChain ==
    (lastOp.op = "reconstruct_from_chain" /\ lastOp.matrices = <<>>) =>
        /\ lastOp.ret.loads = 0 /\ lastOp.ret.warps = 0
        /\ ~IsPathArg(lastOp.original_image) =>
              lastOp.ret.ok /\ lastOp.ret.value = lastOp.original_image.image
        /\ (IsPathArg(lastOp.original_image) /\ readable(lastOp.original_image.path)) =>
              lastOp.ret.ok /\ lastOp.ret.value = ImageStore[lastOp.original_image.path]

\* the empty chain was applied to the path of a raster
C13_Witness ==
    /\ lastOp.op = "reconstruct_from_chain"
    /\ lastOp.matrices = <<>>
    /\ IsPathArg(lastOp.original_image)
    /\ lastOp.ret.ok
    /\ lastOp.ret.value = ImageStore[lastOp.original_image.path]

(***************************************************************************)
(* SpecEstimate: one call of compute_transformation_matrix for each        *)
(* outcome of the library calls it makes.                                  *)
(***************************************************************************)
\* a quarter turn with a translation, and a similarity with fractions
AffineTurn  == AffineArray(<<0, -FloatUnit, 2 * FloatUnit,  FloatUnit, 0, 0>>)
AffineHalf  == AffineArray(<<1, 0, -1,  0, 1, 5>>)

EstimatorOutcomes ==
    { [img1 |-> i1, img2 |-> i2, des1 |-> d1, des2 |-> d2, matches |-> n, matrix |-> m] :
        i1 \in {None, "image"}, i2 \in {None, "image"},
        d1 \in {None, "descriptors"}, d2 \in {None, "descriptors"},
        n \in 0..MaxMatches, m \in {Absent, AffineShift, AffineTurn, AffineHalf} }

InitEstimate ==
    /\ lastOp = [op |-> "none"]
    /\ fs = <<>> /\ lastCodec = [op |-> "none"]
    /\ disk = Absent /\ cache = Absent /\ nOps = 0 /\ writers = <<>>
    /\ DiffIdle

ComputeTransformationMatrix(o) ==
    /\ lastOp.op = "none"
    /\ lastOp' = [op |-> "compute_transformation_matrix", lib |-> o,
                  ret |-> ComputeTransformation(o)]
    /\ ChainIdle

NextEstimate == \E o \in EstimatorOutcomes : ComputeTransformationMatrix(o)

SpecEstimate == InitEstimate /\ [][NextEstimate]_vars

\* the estimate falls back: no descriptors for an image, fewer than four
\* matches, or no matrix from the affine estimator
FallsBack(o) ==
    \/ o.des1 = None \/ o.des2 = None
    \/ o.matches < 4
    \/ o.matrix = Absent

\* C14: for two images that were read, compute_transformation_matrix returns
\* the 3x3 identity, and raises nothing, whenever an image has no
\* descriptors, the matcher gives fewer than 4 matches or the affine estimator
\* gives no matrix; otherwise it returns a 3x3 matrix with bottom row [0,0,1].
C14_IdentityFallback ==
    (lastOp.op = "compute_transformation_matrix"
        /\ lastOp.lib.img1 # None /\ lastOp.lib.img2 # None) =>
        /\ lastOp.ret.ok
        /\ lastOp.ret.value.shape = <<3, 3>>
        /\ lastOp.ret.value.dtype = "float32"
        /\ FallsBack(lastOp.lib) =>
              lastOp.ret.value.vals =
                  <<FloatUnit, 0, 0,  0, FloatUnit, 0,  0, 0, FloatUnit>>
        /\ ~FallsBack(lastOp.lib) =>
              /\ SubSeq(lastOp.ret.value.vals, 7, 9) = <<0, 0, FloatUnit>>
              /\ SubSeq(lastOp.ret.value.vals, 1, 6) = lastOp.lib.matrix.vals

\* three matches between images with descriptors, and an estimator that would
\* have given a matrix: the identity came back
C14_Witness ==
    /\ lastOp.op = "compute_transformation_matrix"
    /\ lastOp.lib.img1 # None /\ lastOp.lib.img2 # None
    /\ lastOp.lib.des1 # None /\ lastOp.lib.des2 # None
    /\ lastOp.lib.matches = 3
    /\ lastOp.lib.matrix # Absent
    /\ lastOp.ret = Ok(np_eye3)

(***************************************************************************)
(* Errors of the loaders (SpecCodec)                                       *)
(***************************************************************************)
\* C15: load_pixel_difference_matrix and load_transformation_matrix fail
\* with a not-found error when neither the .npz nor the .json sibling of the
\* requested path exists, and never fail with not-found when one of them
\* exists.
C15_NotFound ==
    IsLoad(lastCodec) =>
        ( lastCodec.result = Err("FileNotFoundError")
          <=> ( /\ ~exists(fs, with_suffix(lastCodec.path, ".npz"))
                /\ ~exists(fs, with_suffix(lastCodec.path, ".json")) ) )

\* a transform was requested by its .npz name while other artifacts existed
\* and neither of its siblings did
C15_Witness ==
    /\ lastCodec.op = "load_transform"
    /\ lastCodec.path.suffix = ".npz"
    /\ ~exists(fs, with_suffix(lastCodec.path, ".npz"))
    /\ ~exists(fs, with_suffix(lastCodec.path, ".json"))
    /\ fs # <<>>
    /\ lastCodec.result = Err("FileNotFoundError")

(***************************************************************************)
(* SpecRecord: the recording workflows of one collection, given the path   *)
(* of an original that exists or one that does not.                        *)
(***************************************************************************)
NextRecord ==
    \/ \E ed \in Edges :
          \E o \in OriginalPaths \cup {MissingOriginalPath}, e \in EditedPaths :
              RecordPixelVersion(StemSeq[1], ed[1], ed[2], o, e)
    \/ \E ed \in Edges :
          \E o \in OriginalPaths \cup {MissingOriginalPath}, e \in EditedPaths :
              RecordNewVersion(StemSeq[1], ed[1], ed[2], o, e)

SpecRecord == Init /\ [][NextRecord]_vars

\* C16: a recording workflow, record_new_version as well as
\* record_pixel_version, whose original raster path does not exist fails with
\* a not-found error.
C16_MissingOriginal ==
    (IsRecord(lastOp) /\ ~readable(lastOp.original)) =>
        ~lastOp.ok /\ lastOp.error = "FileNotFoundError"

(***************************************************************************)
(* Format selection (SpecCodec)                                            *)
(***************************************************************************)
\* a load of path P directly after a save to P, P not a .json path, with no
\* .json sibling of P in the way
LoadAfterBinarySave(loadOp, saveOp) ==
    /\ lastCodec.op = loadOp
    /\ lastCodec.after.op = saveOp
    /\ lastCodec.after.path = lastCodec.path
    /\ lastCodec.path.suffix # ".json"
    /\ ~exists(fs, with_suffix(lastCodec.path, ".json"))

\* C17: for a target path of suffix .npz, of any other suffix but .json, or
\* of no suffix, save writes a binary artifact and a following load of the
\* same path returns the saved matrix.
C17_FormatBySuffix ==
    /\ LoadAfterBinarySave("load_pixel", "save_pixel") =>
          /\ lastCodec.result.ok
          /\ lastCodec.result.value.shape = lastCodec.after.matrix.shape
          /\ lastCodec.result.value.vals = lastCodec.after.matrix.vals
    /\ LoadAfterBinarySave("load_transform", "save_transform") =>
          lastCodec.result = Ok(lastCodec.after.matrix)

(***************************************************************************)
(* SpecPaths: one call of a function of service/versions.py.               *)
(***************************************************************************)
PathVersions == 1..MaxPathVersion

InitPaths ==
    /\ lastOp = [op |-> "none"]
    /\ fs = <<>> /\ lastCodec = [op |-> "none"]
    /\ disk = Absent /\ cache = Absent /\ nOps = 0 /\ writers = <<>>
    /\ DiffIdle

MatrixFilename(f, t) ==
    /\ lastOp.op = "none"
    /\ lastOp' = [op |-> "matrix_filename", from |-> f, to |-> t,
                  ret |-> matrix_filename(f, t)]
    /\ ChainIdle

MetricsFilenames(v) ==
    /\ lastOp.op = "none"
    /\ lastOp' = [op |-> "metrics_filenames", version |-> v,
                  ret |-> metrics_filenames(v)]
    /\ ChainIdle

MatrixPath(stem, f, t) ==
    /\ lastOp.op = "none"
    /\ lastOp' = [op |-> "matrix_path", stem |-> stem, from |-> f, to |-> t,
                  ret |-> matrix_path(stem, f, t)]
    /\ ChainIdle

MetricsPaths(stem, v) ==
    /\ lastOp.op = "none"
    /\ lastOp' = [op |-> "metrics_paths", stem |-> stem, version |-> v,
                  ret |-> metrics_paths(stem, v)]
    /\ ChainIdle

NextPaths ==
    \/ \E f \in PathVersions, t \in PathVersions : MatrixFilename(f, t)
    \/ \E v \in PathVersions : MetricsFilenames(v)
    \/ \E st \in Stems, f \in PathVersions, t \in PathVersions : MatrixPath(st, f, t)
    \/ \E st \in Stems, v \in PathVersions : MetricsPaths(st, v)

SpecPaths == InitPaths /\ [][NextPaths]_vars

\* the text of a version number in a file name
V(n) == "v" \o ToString(n)

NextGrow ==
    \/ \E st \in Stems, v \in Versions :
          \E kp \in { <<None, None>>, <<MatrixKey(1, v), LegacyPathStr>> } :
              AddImageVersion(st, v, kp[1], kp[2], MaxOps)
    \/ \E st \in Stems, ed \in Edges :
          \E o \in OriginalPaths \cup {MissingOriginalPath} :
              RecordPixelVersion(st, ed[1], ed[2], o, "uploads/edit_1.png")
    \/ \E st \in Stems, ed \in Edges :
          \E o \in OriginalPaths \cup {MissingOriginalPath} :
              RecordNewVersion(st, ed[1], ed[2], o, "uploads/edit_2.png")

SpecGrow == Init /\ [][NextGrow]_vars

\* the collections and the (collection, version) pairs of a cache or a file
CollectionsOf(x) == IF x = Absent THEN {} ELSE DOMAIN x.images
VersionsOf(x) == IF x = Absent THEN {} ELSE VersionFacts(x)
Parsed(file) == IF file = Absent THEN Absent ELSE json_load(file)

\* the collection and version a call records
RecordedBy(op) ==
    IF op.op = "add_image_version" THEN <<op.stem, op.version>> ELSE <<op.stem, op.to>>

\* from index before to index after, nothing is lost and at most the pair is new
GrowsBy(before, after, pair) ==
    LET c0 == CollectionsOf(before)
        c1 == CollectionsOf(after)
        v0 == VersionsOf(before)
        v1 == VersionsOf(after)
    IN  /\ c0 \subseteq c1
        /\ c1 \ c0 \subseteq {pair[1]}
        /\ v0 \subseteq v1
        /\ v1 \ v0 \subseteq {pair}

\* C20: along recording workflows and add_image_version calls the set of
\* collections and each collection's set of versions lose no element; a step
\* leaves them as they were or adds just the recorded collection and version.
C20_VersionsOnlyGrow ==
    [][ (lastOp'.op = "add_image_version" \/ IsRecord(lastOp')) =>
          LET pair == RecordedBy(lastOp')
              file1 == Parsed(disk')
          IN  /\ GrowsBy(cache, cache', pair)
              /\ GrowsBy(Parsed(disk), file1, pair)
              /\ (lastOp'.op = "add_image_version" \/ lastOp'.ok) =>
                    /\ pair \in VersionsOf(cache')
                    /\ pair \in VersionsOf(file1) ]_vars

\* a version was added to a collection that had another one
C20_Witness ==
    /\ lastOp.op = "add_image_version"
    /\ ~lastOp.had
    /\ cache # Absent
    /\ Len(cache.images[lastOp.stem].versions) = 2
    /\ VersionsOf(Parsed(disk)) = VersionsOf(cache)

(***************************************************************************)
(* One artifact per edge (SpecRecord)                                      *)
(***************************************************************************)
\* the files of the artifact directory of stem that carry the name of the edge
ArtifactsOf(files, stem, f, t) ==
    { p \in DOMAIN files : /\ p.parent = init_image_version_dir(stem)
                           /\ p.stem = matrix_filename(f, t).stem }

\* the mappings the index file lists for stem under key
MappingsInFile(file, stem, key) ==
    { <<i, j>> \in (DOMAIN file.images) \X (1..Len(KeySeq)) :
        /\ file.images[i].name = stem
        /\ j \in DOMAIN file.images[i].matrices
        /\ file.images[i].matrices[j][1] = key }

\* the member name each workflow stores its matrix under
MemberOf(op) == IF op.op = "record_pixel_version" THEN "diff_matrix" ELSE "matrix"

\* C21: after any sequence of transform-based and diff-based recordings each
\* edge (stem, from, to) has at most one artifact file, and a recorded edge
\* has exactly one, at matrix_path(stem, from, to), with exactly one
\* "from->to" mapping to it in the cache and in the file; the artifact is
\* the one the latest workflow for the edge wrote.
C21_OneArtifactPerEdge ==
    /\ \A st \in Stems, e \in Versions \X Versions :
          LET arts == ArtifactsOf(fs, st, e[1], e[2])
              k == MatrixKey(e[1], e[2])
              p == matrix_path(st, e[1], e[2])
          IN  /\ Cardinality(arts) <= 1
              /\ arts # {} =>
                    /\ arts = {p}
                    /\ cache # Absent /\ st \in DOMAIN cache.images
                    /\ k \in DOMAIN cache.images[st].matrices
              /\ \A x \in IndexViews :
                    (st \in DOMAIN x.images /\ k \in DOMAIN x.images[st].matrices)
                        => /\ x.images[st].matrices[k] = PathStr(p)
                           /\ arts = {p}
              /\ disk # Absent =>
                    Cardinality(MappingsInFile(disk, st, k)) = Cardinality(arts)
    /\ (IsRecord(lastOp) /\ lastOp.ok) =>
          /\ fs[lastOp.ret.matrix_path].members[1].key = MemberOf(lastOp)
          /\ StoredMatrix(fs, lastOp) = Ok(lastOp.matrix)

\* the transform workflow recorded an edge whose artifact the diff workflow
\* had written: one file, now the transform matrix, and one mapping
C21_Witness ==
    /\ lastOp.op = "record_new_version" /\ lastOp.ok
    /\ lastOp.overwrote /\ ~lastOp.rerun
    /\ ArtifactsOf(fs, lastOp.stem, lastOp.from, lastOp.to) = {lastOp.ret.matrix_path}
    /\ fs[lastOp.ret.matrix_path].members[1].key = "matrix"
    /\ Cardinality(MappingsInFile(disk, lastOp.stem, MatrixKey(lastOp.from, lastOp.to))) = 1

(***************************************************************************)
(* The argument handling of compute_pixel_difference_matrix,               *)
(* apply_pixel_difference_matrix and apply_transformation_matrix.  An      *)
(* argument of a type the function does not accept is [other |-> x].  A    *)
(* call gives [ok, value | error, opens], opens the paths it handed to     *)
(* Image.open and to the artifact loader, in that order; none of the three *)
(* functions writes a file.                                                *)
(***************************************************************************)
\* isinstance(x, Image.Image), isinstance(x, np.ndarray)
IsImageArg(x) == "image" \in DOMAIN x
IsArrayArg(x) == "array" \in DOMAIN x

\* pixel_diff.py lines 25-30, 32-37, 148-153 and transformer.py lines 79-84
LoadImageArg(image) ==
    IF IsPathArg(image)
    THEN IF readable(image.path)
         THEN [ok |-> TRUE, value |-> ImageStore[image.path], opens |-> <<image.path>>]
         ELSE [ok |-> FALSE, error |-> "FileNotFoundError", opens |-> <<image.path>>]
    ELSE IF IsImageArg(image)
    THEN [ok |-> TRUE, value |-> image.image, opens |-> <<>>]
    ELSE [ok |-> FALSE, error |-> "TypeError", opens |-> <<>>]

\* pixel_diff.py lines 156-161
LoadDiffArg(files, diff_matrix) ==
    IF IsPathArg(diff_matrix)
    THEN LET diff_array == load_pixel_difference_matrix(files, diff_matrix.path)
         IN  IF diff_array.ok
             THEN [ok |-> TRUE, value |-> diff_array.value, opens |-> <<diff_matrix.path>>]
             ELSE [ok |-> FALSE, error |-> diff_array.error, opens |-> <<diff_matrix.path>>]
    ELSE IF IsArrayArg(diff_matrix)
    THEN [ok |-> TRUE, value |-> diff_matrix.array, opens |-> <<>>]
    ELSE [ok |-> FALSE, error |-> "TypeError", opens |-> <<>>]

\* a fault: the edited image is not type-checked and is taken for a handle
ComputePixelDifferenceUnchecked(original_image, edited_image) ==
    LET orig_img == LoadImageArg(original_image)
    IN  IF ~orig_img.ok THEN { [ok |-> FALSE, error |-> orig_img.error, opens |-> orig_img.opens] }
        ELSE IF IsPathArg(edited_image) \/ IsImageArg(edited_image)
        THEN LET ed == LoadImageArg(edited_image)
             IN  IF ~ed.ok
                 THEN { [ok |-> FALSE, error |-> ed.error, opens |-> orig_img.opens \o ed.opens] }
                 ELSE { [ok |-> TRUE, value |-> compute_pixel_difference_matrix(orig_img.value, e),
                         opens |-> orig_img.opens \o ed.opens] :
                            e \in NormalizedEdits(orig_img.value, ed.value) }
        ELSE { [ok |-> FALSE, error |-> "AttributeError", opens |-> orig_img.opens] }

\* pixel_diff.py lines 24-67: the results the call may give (the resampling
\* of an edited image of another size is left open)
ComputePixelDifference(original_image, edited_image) ==
    LET orig_img == LoadImageArg(original_image)
    IN  IF ~orig_img.ok THEN { [ok |-> FALSE, error |-> orig_img.error, opens |-> orig_img.opens] }
        ELSE LET ed == LoadImageArg(edited_image)
             IN  IF ~ed.ok
                 THEN { [ok |-> FALSE, error |-> ed.error, opens |-> orig_img.opens \o ed.opens] }
                 ELSE { [ok |-> TRUE, value |-> compute_pixel_difference_matrix(orig_img.value, e),
                         opens |-> orig_img.opens \o ed.opens] :
                            e \in NormalizedEdits(orig_img.value, ed.value) }

\* line 164: the array is taken for a legacy transform matrix
IsLegacyTransform(diff_array) == Len(diff_array.shape) = 2 /\ diff_array.shape = <<3, 3>>

\* the shape of the diff when it is added (lines 177-194): the shape of the
\* image of the resized diff where the shapes differed
ShapeAdded(orig_img, diff_array) ==
    IF orig_img.shape = diff_array.shape THEN diff_array.shape
    ELSE IF Len(diff_array.shape) = 3 THEN orig_img.shape
    ELSE <<orig_img.shape[1], orig_img.shape[2]>>

\* pixel_diff.py lines 147-201
ApplyPixelDifference(files, original_image, diff_matrix) ==
    LET orig_img == LoadImageArg(original_image)
    IN  IF ~orig_img.ok THEN [ok |-> FALSE, error |-> orig_img.error, opens |-> orig_img.opens]
        ELSE LET diff_array == LoadDiffArg(files, diff_matrix)
                 opens == orig_img.opens \o diff_array.opens
             IN  IF ~diff_array.ok
                 THEN [ok |-> FALSE, error |-> diff_array.error, opens |-> opens]
                 ELSE IF /\ ~IsLegacyTransform(diff_array.value)
                         /\ ~broadcasts(ShapeAdded(orig_img.value, diff_array.value),
                                        orig_img.value.shape)
                 THEN [ok |-> FALSE, error |-> "ValueError", opens |-> opens]
                 ELSE [ok |-> TRUE,
                       value |-> apply_pixel_difference_matrix(orig_img.value, diff_array.value),
                       opens |-> opens]

\* transformer.py lines 79-94
ApplyTransformation(image, matrix) ==
    LET img == LoadImageArg(image)
    IN  IF ~img.ok THEN [ok |-> FALSE, error |-> img.error, opens |-> img.opens]
        ELSE [ok |-> TRUE, value |-> apply_transformation_matrix(img.value, matrix),
              opens |-> img.opens]

(***************************************************************************)
(* SpecArgs: one call of compute_pixel_difference_matrix,                  *)
(* apply_pixel_difference_matrix or apply_transformation_matrix, with      *)
(* arguments of every kind the functions tell apart.                       *)
(***************************************************************************)
\* a raster of w pixels, and two rasters of 3 x 3 pixels
WideRaster(w) ==
    Image([k \in 1..w |-> IF k % 2 = 1 THEN <<0, 128, 0>> ELSE <<255, 255, 255>>])
SquareRaster ==
    [dtype |-> "uint8", shape |-> <<3, 3, 3>>, vals |-> [i \in 1..27 |-> (37 * i) % 256]]
SquareEdit ==
    [dtype |-> "uint8", shape |-> <<3, 3, 3>>, vals |-> [i \in 1..27 |-> (91 * i + 5) % 256]]

\* objects that are neither a path nor an image nor an array
OtherArgs == { [other |-> None], [other |-> "bytes"] }

ArgOriginals ==
    { [image |-> r] : r \in RastersOfWidth(1) }
        \cup { [image |-> WideRaster(w)] : w \in 2..MaxW }
        \cup { [image |-> SquareRaster] }
        \cup { [path |-> p] : p \in OriginalPaths \cup {MissingOriginalPath} }
        \cup OtherArgs

ArgEdits ==
    { [image |-> Image(<< <<128, 1, 0>> >>)], [image |-> WideRaster(MaxW)] }
        \cup { [path |-> p] : p \in EditedPaths \cup {MissingOriginalPath} }
        \cup OtherArgs

\* the (original, edited) pairs of compute: the rasters of 3 x 3 pixels come
\* with one another (the resampling is modelled for rasters of one row)
ComputeArgs ==
    ((ArgOriginals \ { [image |-> SquareRaster] }) \X ArgEdits)
        \cup ({ [image |-> SquareRaster] } \X ({ [image |-> SquareEdit] } \cup OtherArgs))

\* element values of the diffs handed to apply: the ends of int8 and int16,
\* the ends of the differences of two rasters, and the values next to them
DiffValues ==
    { -32768, -32513, -256, -255, -129, -128, -1, 0, 1, 127, 128, 255, 256,
      32512, 32513, 32767 }

\* arrays of one value, of the shape of a raster of one row
UniformDiffs ==
    { [dtype |-> t, shape |-> <<1, w, 3>>, vals |-> [i \in 1..(3 * w) |-> d]] :
        t \in {"int16"}, w \in 1..MaxW, d \in DiffValues }
    \cup
    { [dtype |-> t, shape |-> <<1, w, 3>>, vals |-> [i \in 1..(3 * w) |-> d]] :
        t \in {"int8"}, w \in 1..MaxW, d \in { v \in DiffValues : v >= Int8Min /\ v <= Int8Max } }

\* a diff of 3 x 3 pixels, and diffs of two dimensions that are not 3 x 3
SquareDiff ==
    [dtype |-> "int16", shape |-> <<3, 3, 3>>, vals |-> [i \in 1..27 |-> ((53 * i) % 511) - 255]]
FlatDiffs ==
    { [dtype |-> "int16", shape |-> <<2, 3>>, vals |-> <<1, -2, 3, -4, 5, -6>>],
      [dtype |-> "int16", shape |-> <<1, 1>>, vals |-> <<7>>] }

\* arrays of shape (3, 3): transform matrices, and a diff-typed one
LegacyArrays ==
    { np_eye3, ChainShift,
      [dtype |-> "int16", shape |-> <<3, 3>>, vals |-> <<1, 0, 2,  0, 1, -3,  0, 0, 1>>] }

ArgDiffPath   == Path("transformations/img_a", "v1_to_v2_matrix", ".npz")
ArgWarpPath   == Path("transformations/img_a", "v1_to_v3_matrix", ".npz")
ArgLegacyPath == Path("transformations/img_001", "v1_to_v2_matrix", ".json")
ArgLostPath   == Path("transformations/img_a", "v2_to_v3_matrix", ".npz")

\* the artifacts present: a pixel diff, a transform, a legacy text transform
ArgStore ==
    save_transformation_matrix(
        save_transformation_matrix(
            save_pixel_difference_matrix(<<>>, DiffArray("int16", <<255, -255, 1>>), ArgDiffPath),
            ChainShift, ArgWarpPath),
        ChainScale, ArgLegacyPath)

ArgDiffs ==
    { [array |-> a] : a \in UniformDiffs \cup DiffMatrices \cup {SquareDiff}
                              \cup FlatDiffs \cup LegacyArrays }
        \cup { [path |-> p] : p \in {ArgDiffPath, ArgWarpPath, ArgLegacyPath, ArgLostPath} }
        \cup OtherArgs

InitArgs ==
    /\ fs = ArgStore
    /\ lastCodec = [op |-> "none"]
    /\ lastOp = [op |-> "none"]
    /\ disk = Absent /\ cache = Absent /\ nOps = 0 /\ writers = <<>>
    /\ DiffIdle

ComputePixelDifferenceMatrix(original_image, edited_image) ==
    /\ lastOp.op = "none"
    /\ \E r \in ComputePixelDifference(original_image, edited_image) :
          lastOp' = [op |-> "compute_pixel_difference_matrix",
                     images |-> <<original_image, edited_image>>, ret |-> r]
    /\ ChainIdle

ApplyPixelDifferenceMatrix(original_image, diff_matrix) ==
    /\ lastOp.op = "none"
    /\ lastOp' = [op |-> "apply_pixel_difference_matrix",
                  images |-> <<original_image>>, diff_matrix |-> diff_matrix,
                  ret |-> ApplyPixelDifference(fs, original_image, diff_matrix)]
    /\ ChainIdle

ApplyTransformationMatrix(image, matrix) ==
    /\ lastOp.op = "none"
    /\ lastOp' = [op |-> "apply_transformation_matrix",
                  images |-> <<image>>, matrix |-> matrix,
                  ret |-> ApplyTransformation(image, matrix)]
    /\ ChainIdle

NextArgs ==
    \/ \E a \in ComputeArgs : ComputePixelDifferenceMatrix(a[1], a[2])
    \/ \E o \in ArgOriginals, d \in ArgDiffs : ApplyPixelDifferenceMatrix(o, d)
    \/ \E o \in ArgOriginals, m \in {np_eye3, ChainShift} : ApplyTransformationMatrix(o, m)

SpecArgs == InitArgs /\ [][NextArgs]_vars

(***************************************************************************)
(* Properties of the calls (SpecArgs)                                      *)
(***************************************************************************)
\* the raster and the array a completed apply call worked on
OriginalOf(op) == LoadImageArg(op.images[1]).value
DiffOf(op) == LoadDiffArg(fs, op.diff_matrix).value

\* an apply call that returned, on a diff of the shape of the original with
\* int8 or int16 elements
AppliedSameShape ==
    /\ lastOp.op = "apply_pixel_difference_matrix"
    /\ lastOp.ret.ok
    /\ DiffOf(lastOp).dtype \in {"int8", "int16"}
    /\ DiffOf(lastOp).shape = OriginalOf(lastOp).shape

Clamp(x) == IF x < 0 THEN 0 ELSE IF x > UInt8Max THEN UInt8Max ELSE x

\* C22: for an original raster and a diff of the same shape with any int8 or
\* int16 elements, apply_pixel_difference_matrix returns in every channel
\* min(255, max(0, original + diff)) of the true integer sum, a value in
\* [0,255].
C22_ApplyArithmetic ==
    AppliedSameShape =>
        /\ lastOp.ret.value.dtype = "uint8"
        /\ lastOp.ret.value.shape = OriginalOf(lastOp).shape
        /\ \A i \in DOMAIN OriginalOf(lastOp).vals :
              /\ lastOp.ret.value.vals[i]
                    = Clamp(OriginalOf(lastOp).vals[i] + DiffOf(lastOp).vals[i])
              /\ lastOp.ret.value.vals[i] \in 0..UInt8Max

\* the arguments of a call that are type-checked, in the order of the checks
CheckedArgs(op) ==
    IF op.op = "apply_pixel_difference_matrix" THEN op.images \o <<op.diff_matrix>>
    ELSE op.images

IsCall(op) ==
    op.op \in {"compute_pixel_difference_matrix", "apply_pixel_difference_matrix",
               "apply_transformation_matrix"}

\* a call with an argument that is neither a path nor an object of its type
HasUnsupported(op) ==
    IsCall(op) /\ \E i \in DOMAIN CheckedArgs(op) : CheckedArgs(op)[i] \in OtherArgs

\* the place of the first such argument
FirstUnsupported(op) ==
    CHOOSE i \in DOMAIN CheckedArgs(op) :
        /\ CheckedArgs(op)[i] \in OtherArgs
        /\ \A j \in 1..(i - 1) : CheckedArgs(op)[j] \notin OtherArgs

\* the paths among the first n arguments, in order
PathsAmong(args, n) ==
    LET paths == SelectSeq(SubSeq(args, 1, n), IsPathArg)
    IN  [i \in DOMAIN paths |-> paths[i].path]

\* C23: compute_pixel_difference_matrix, apply_pixel_difference_matrix and
\* apply_transformation_matrix fail with a type error when an image input is
\* neither a path nor a raster handle, or the diff input neither a path nor an
\* array; the error is raised before any file is read or written.
C23_InvalidArgument ==
    HasUnsupported(lastOp) =>
        /\ ~lastOp.ret.ok
        /\ lastOp.ret.error = "TypeError"
        /\ lastOp.ret.opens = <<>>
        /\ fs = ArgStore

\* C23 as the code has it: the inputs are checked one after the other, each
\* path input being opened as it is checked.  The call fails with a type
\* error at the first input of an unsupported type when the path inputs
\* before it were opened (they, and no other file, have been read then), and
\* with a not-found error when one of them does not exist; no file is written.
C23_InvalidArgumentInOrder ==
    HasUnsupported(lastOp) =>
        LET args == CheckedArgs(lastOp)
            k == FirstUnsupported(lastOp)
            before == PathsAmong(args, k - 1)
        IN  /\ ~lastOp.ret.ok
            /\ fs = ArgStore
            /\ IF \A i \in DOMAIN before : readable(before[i])
               THEN /\ lastOp.ret.error = "TypeError"
                    /\ lastOp.ret.opens = before
               ELSE /\ lastOp.ret.error = "FileNotFoundError"
                    /\ lastOp.ret.opens # <<>>

\* a type error for the edited image, raised after the original was opened
C23_Witness ==
    /\ lastOp.op = "compute_pixel_difference_matrix"
    /\ lastOp.images[2] \in OtherArgs
    /\ IsPathArg(lastOp.images[1])
    /\ lastOp.ret.error = "TypeError"
    /\ lastOp.ret.opens = <<lastOp.images[1].path>>

\* the result is what the transform engine's apply returned
IsWarp(v) == "warp" \in DOMAIN v

\* an apply call that got as far as the sniff: image and array are there
Sniffed ==
    /\ lastOp.op = "apply_pixel_difference_matrix"
    /\ LoadImageArg(lastOp.images[1]).ok
    /\ LoadDiffArg(fs, lastOp.diff_matrix).ok

\* C24: apply_pixel_difference_matrix hands the loaded or given array to the
\* transform engine's apply if and only if the array has two dimensions and
\* shape (3,3); every other array takes the pixel-difference path; and a
\* matrix returned by compute_pixel_difference_matrix has three dimensions,
\* the last one 3, and is never handed to the transform engine.
C24_ShapeSniff ==
    /\ Sniffed =>
          LET d == DiffOf(lastOp)
          IN  IF Len(d.shape) = 2 /\ d.shape[1] = 3 /\ d.shape[2] = 3
              THEN /\ lastOp.ret.ok
                   /\ lastOp.ret.value
                        = apply_transformation_matrix(OriginalOf(lastOp), astype(d, "float32"))
              ELSE lastOp.ret.ok =>
                      /\ ~IsWarp(lastOp.ret.value)
                      /\ lastOp.ret.value.dtype = "uint8"
                      /\ lastOp.ret.value.shape = OriginalOf(lastOp).shape
    /\ (lastOp.op = "compute_pixel_difference_matrix" /\ lastOp.ret.ok) =>
          /\ Len(lastOp.ret.value.shape) = 3
          /\ lastOp.ret.value.shape[3] = 3
          /\ \A o \in { a \in ArgOriginals : IsImageArg(a) } :
                LET r == ApplyPixelDifference(fs, o, [array |-> lastOp.ret.value])
                IN  r.ok /\ ~IsWarp(r.value)

\* a stored 3 x 3 matrix, loaded through the diff loader, went to the
\* transform engine
C24_Witness ==
    /\ Sniffed
    /\ IsPathArg(lastOp.diff_matrix)
    /\ DiffOf(lastOp).shape = <<3, 3>>
    /\ lastOp.ret.ok
    /\ IsWarp(lastOp.ret.value)
    /\ lastOp.ret.value.matrix.dtype = "float32"

(***************************************************************************)
(* ui/webapp/views.py: delete_all, the reset of the store.                 *)
(***************************************************************************)
\* the values of the form field "confirm"
Confirms == { "yes", " YES ", "no", "" }

\* line 138: confirm.strip().lower(), on the values above
strip_lower(confirm) == IF confirm = " YES " THEN "yes" ELSE confirm

\* lines 180-218: the files under transformations/ are unlinked
DeleteTransformations(files) ==
    LET dirs == { init_image_version_dir(st) : st \in Stems }
                    \cup { init_image_version_dir(st) \o "/metrics" : st \in Stems }
    IN  [p \in { q \in DOMAIN files : q.parent \notin dirs } |-> files[p]]

\* a fault: the files are deleted and the index is left as it was
DeleteAllKeepsIndex(files, cached, file, method, confirm) ==
    IF method = "POST" /\ strip_lower(confirm) = "yes"
    THEN [fs |-> DeleteTransformations(files), cache |-> cached, disk |-> file, reset |-> TRUE]
    ELSE IF method = "POST"
    THEN [fs |-> files, cache |-> cached, disk |-> file, reset |-> FALSE]
    ELSE LET index == load_index(cached, file, FALSE)
         IN  [fs |-> files, cache |-> index.cache, disk |-> index.disk, reset |-> FALSE]

\* lines 132-262: [fs, cache, disk, reset] after the view handled the request;
\* a GET request only counts what is there, through load_index()
delete_all(files, cached, file, method, confirm) ==
    IF method = "POST" /\ strip_lower(confirm) = "yes"
    THEN LET empty_index == _empty_index
             saved == save_index(cached, file, empty_index)
         IN  [fs |-> DeleteTransformations(files), cache |-> empty_index,
              disk |-> saved.disk, reset |-> TRUE]
    ELSE IF method = "POST"
    THEN [fs |-> files, cache |-> cached, disk |-> file, reset |-> FALSE]
    ELSE LET index == load_index(cached, file, FALSE)
         IN  [fs |-> files, cache |-> index.cache, disk |-> index.disk, reset |-> FALSE]

(***************************************************************************)
(* SpecReset: the index of the web process: uploads that record a diff     *)
(* version, add_image_version and load_index calls, and delete_all         *)
(* requests.                                                               *)
(***************************************************************************)
\* calls made in one behaviour of SpecReset
MaxResetOps == 3

DeleteAll(method, confirm) ==
    /\ nOps < MaxResetOps
    /\ LET r == delete_all(fs, cache, disk, method, confirm)
       IN  /\ fs' = r.fs /\ cache' = r.cache /\ disk' = r.disk
           /\ lastOp' = [op |-> "delete_all", method |-> method, confirm |-> confirm,
                         reset |-> r.reset,
                         had |-> cache # Absent /\ cache # _empty_index]
    /\ nOps' = nOps + 1
    /\ Idle

NextReset ==
    \/ \E method \in {"GET", "POST"}, confirm \in Confirms : DeleteAll(method, confirm)
    \/ LoadIndex(FALSE, MaxResetOps)
    \/ \E st \in Stems, v \in Versions :
          \E kp \in { <<None, None>>, <<MatrixKey(1, v), LegacyPathStr>> } :
              AddImageVersion(st, v, kp[1], kp[2], MaxResetOps)
    \/ \E v \in Versions :
          RecordPixelVersion(StemSeq[1], 1, v, "images/original/photo.png", "uploads/edit_1.png")

SpecReset == Init /\ [][NextReset]_vars

\* the index with one collection that has one version and maybe one mapping
FreshIndex(op) ==
    [images |-> [st \in {op.stem} |->
        [versions |-> <<op.version>>,
         matrices |-> IF truthy(op.key) /\ truthy(op.path)
                      THEN [k \in {op.key} |-> op.path] ELSE <<>>]]]

\* C25: after delete_all handled a POST confirmed with "yes", the index file
\* and the cache of the process both hold the empty index; a load_index()
\* that follows returns no collections, and an add_image_version that
\* follows builds its document from the empty one.
C25_Reset ==
    [][ /\ (lastOp'.op = "delete_all" /\ lastOp'.reset) =>
              /\ cache' = _empty_index
              /\ disk' # Absent /\ json_load(disk') = _empty_index
        /\ (lastOp.op = "delete_all" /\ lastOp.reset /\ lastOp'.op = "load_index") =>
              /\ lastOp'.ret = _empty_index
              /\ DOMAIN lastOp'.ret.images = {}
        /\ (lastOp.op = "delete_all" /\ lastOp.reset /\ lastOp'.op = "add_image_version") =>
              /\ lastOp'.ret = FreshIndex(lastOp')
              /\ cache' = FreshIndex(lastOp')
              /\ json_load(disk') = FreshIndex(lastOp') ]_vars

\* a confirmed POST reset an index that had collections
C25_Witness ==
    /\ lastOp.op = "delete_all" /\ lastOp.reset /\ lastOp.had
    /\ lastOp.method = "POST" /\ lastOp.confirm = " YES "
    /\ cache = _empty_index
    /\ json_load(disk) = _empty_index
    /\ fs = <<>>

(***************************************************************************)
(* The recording workflows step by step, each step able to fail.           *)
(***************************************************************************)
\* what a failed write leaves of a file: nothing usable
TruncatedFile == [fmt |-> "truncated"]
CorruptIndex == [corrupt |-> TRUE]

\* index_db.py lines 74-85 when the write of line 59-60 raises: the dict that
\* load_index returned is the cache and has been updated in place; the file
\* is as it was when open() refused, and cut short when the dump broke off
AddImageVersionSaveFails(cached, file, image_stem, version, matrix_key, matrix_path_str, outcome) ==
    LET loaded == load_index(cached, file, FALSE)
        index == MutateEntry(loaded.ret, image_stem, version, matrix_key, matrix_path_str)
    IN  [cache |-> index,
         disk |-> IF outcome = "refused" THEN loaded.disk ELSE CorruptIndex]

\* a fault: the index is updated before the artifact is saved
ProgramIndexFirst(op) ==
    IF op = "record_pixel_version" THEN <<"compute", "index", "save">>
    ELSE <<"compute", "index", "save", "metrics">>

\* the steps of a workflow in program order: pixel_versioning.py lines 38,
\* 41-42, 45-46 and versioning.py lines 29, 30-31, 34-46, 49-50
Program(op) ==
    IF op = "record_pixel_version" THEN <<"compute", "save", "index">>
    ELSE <<"compute", "save", "metrics", "index">>

(***************************************************************************)
(* SpecSteps: runs of the two workflows, one step at a time; lastOp is the *)
(* run under way: its arguments, the next step pc, and what it computed.   *)
(***************************************************************************)
\* workflow runs begun in one behaviour of SpecSteps
MaxRuns == 2

Running == lastOp.op # "none" /\ lastOp.status = "running"
Instr == Program(lastOp.op)[lastOp.pc]

\* the run after its step succeeded / failed
Advance(run) ==
    [run EXCEPT !.pc = @ + 1,
                !.status = IF run.pc = Len(Program(run.op)) THEN "done" ELSE "running"]
Failed(run, error) == [run EXCEPT !.status = "failed", !.error = error]

BeginRun(op, stem, f, t, original_image_path, edited_image_path) ==
    /\ ~Running
    /\ nOps < MaxRuns
    /\ nOps' = nOps + 1
    /\ lastOp' = [op |-> op, stem |-> stem, from |-> f, to |-> t,
                  original |-> original_image_path, edited |-> edited_image_path,
                  pc |-> 1, status |-> "running", error |-> None, matrix |-> Absent,
                  indexed |-> FALSE, cache0 |-> cache, disk0 |-> disk]
    /\ UNCHANGED <<fs, cache, disk>> /\ Idle

\* pixel_versioning.py line 38, versioning.py line 29
StepCompute ==
    /\ Running /\ Instr = "compute"
    /\ IF readable(lastOp.original) /\ readable(lastOp.edited)
       THEN \E matrix \in
                IF lastOp.op = "record_pixel_version"
                THEN { compute_pixel_difference_matrix(ImageStore[lastOp.original], e) :
                         e \in NormalizedEdits(ImageStore[lastOp.original],
                                               ImageStore[lastOp.edited]) }
                ELSE compute_transformation_matrix(ImageStore[lastOp.original],
                                                   ImageStore[lastOp.edited]) :
              lastOp' = Advance([lastOp EXCEPT !.matrix = matrix])
       ELSE lastOp' = Failed(lastOp, IF lastOp.op = "record_pixel_version"
                                     THEN "FileNotFoundError" ELSE "ValueError")
    /\ UNCHANGED <<fs, cache, disk, nOps>> /\ Idle

\* pixel_versioning.py lines 41-42, versioning.py lines 30-31
StepSave ==
    /\ Running /\ Instr = "save"
    /\ LET m_path == matrix_path(lastOp.stem, lastOp.from, lastOp.to)
       IN  \E outcome \in {"written", "refused", "truncated"} :
              CASE outcome = "written" ->
                     /\ fs' = IF lastOp.op = "record_pixel_version"
                              THEN save_pixel_difference_matrix(fs, lastOp.matrix, m_path)
                              ELSE save_transformation_matrix(fs, lastOp.matrix, m_path)
                     /\ lastOp' = Advance(lastOp)
                [] outcome = "refused" ->
                     /\ fs' = fs
                     /\ lastOp' = Failed(lastOp, "OSError")
                [] outcome = "truncated" ->
                     /\ fs' = WriteFile(fs, savez_target(m_path), TruncatedFile)
                     /\ lastOp' = Failed(lastOp, "OSError")
    /\ UNCHANGED <<cache, disk, nOps>> /\ Idle

\* versioning.py lines 34-46
StepMetrics ==
    /\ Running /\ Instr = "metrics"
    /\ LET edited_img == ImageStore[lastOp.edited]
           mp == metrics_paths(lastOp.stem, lastOp.to)
           files1 == WriteFile(fs, mp[1], [fmt |-> "text", rgb |-> compute_average_rgb(edited_img)])
           files2 == WriteFile(files1, mp[2],
                               [fmt |-> "text", hist |-> extract_intensity_histogram(edited_img)])
       IN  \E written \in 0..2 :
              /\ fs' = CASE written = 0 -> fs [] written = 1 -> files1 [] written = 2 -> files2
              /\ lastOp' = IF written = 2 THEN Advance(lastOp) ELSE Failed(lastOp, "OSError")
    /\ UNCHANGED <<cache, disk, nOps>> /\ Idle

\* pixel_versioning.py lines 45-46, versioning.py lines 49-50
StepIndex ==
    /\ Running /\ Instr = "index"
    /\ LET m_path == matrix_path(lastOp.stem, lastOp.from, lastOp.to)
           run == [lastOp EXCEPT !.indexed = TRUE]
       IN  \E outcome \in {"written", "refused", "truncated"} :
              IF outcome = "written"
              THEN LET idx == RegisterEdge(cache, disk, lastOp.stem, lastOp.from, lastOp.to, m_path)
                   IN  /\ cache' = idx.cache /\ disk' = idx.disk
                       /\ lastOp' = Advance(run)
              ELSE LET idx == AddImageVersionSaveFails(cache, disk, lastOp.stem, lastOp.to,
                                  MatrixKey(lastOp.from, lastOp.to), PathStr(m_path), outcome)
                   IN  /\ cache' = idx.cache /\ disk' = idx.disk
                       /\ lastOp' = Failed(run, "OSError")
    /\ UNCHANGED <<fs, nOps>> /\ Idle

NextSteps ==
    \/ \E op \in {"record_pixel_version", "record_new_version"}, ed \in Edges :
          \E o \in OriginalPaths \cup {MissingOriginalPath} :
              BeginRun(op, StemSeq[1], ed[1], ed[2], o, "uploads/edit_1.png")
    \/ StepCompute
    \/ StepSave
    \/ StepMetrics
    \/ StepIndex

SpecSteps == Init /\ [][NextSteps]_vars

\* the index documents that can be read in a state
ReadableViews ==
    (IF cache # Absent THEN {cache} ELSE {}) \cup
    (IF disk # Absent /\ disk # CorruptIndex THEN {json_load(disk)} ELSE {})

\* every path of a matrices mapping of the index names a file that exists
MappedPathsExist(index, files) ==
    \A st \in DOMAIN index.images :
        \A k \in DOMAIN index.images[st].matrices :
            \E p \in DOMAIN files : PathStr(p) = index.images[st].matrices[k]

\* C26: in a recording workflow the artifact file is written before the index
\* is updated and the index update is the last step: in every state that
\* runs of the workflows reach, failed runs included, every path in a
\* matrices mapping of the index names an artifact file that exists, and a
\* run that failed before its index update has left the index unchanged.
C26_ArtifactBeforeIndex ==
    /\ \A x \in ReadableViews : MappedPathsExist(x, fs)
    /\ lastOp.op # "none" =>
          /\ lastOp.indexed =>
                /\ lastOp.status \in {"done", "failed"}
                /\ exists(fs, matrix_path(lastOp.stem, lastOp.from, lastOp.to))
          /\ ~lastOp.indexed => (cache = lastOp.cache0 /\ disk = lastOp.disk0)
          /\ lastOp.status = "done" => lastOp.indexed

\* a run failed after it had written its artifact and before the index
\* update, beside an edge recorded earlier
C26_Witness ==
    /\ lastOp.op = "record_new_version"
    /\ lastOp.status = "failed" /\ ~lastOp.indexed
    /\ lastOp.pc = 3
    /\ lastOp.from = 1 /\ lastOp.to = 2
    /\ exists(fs, matrix_path(lastOp.stem, 1, 2))
    /\ cache # Absent
    /\ MatrixKey(1, 1) \in DOMAIN cache.images[lastOp.stem].matrices
    /\ MatrixKey(1, 2) \notin DOMAIN cache.images[lastOp.stem].matrices

(***************************************************************************)
(* SpecSequential: two processes that have loaded the index call           *)
(* add_image_version one call after the other, never at the same time; a   *)
(* process may also reload the index from the file.                        *)
(***************************************************************************)
\* the documents state/index.db may hold when the processes load it
LoadedIndexes ==
    { _empty_index,
      [images |-> [st \in {"img_a"} |-> [versions |-> <<1>>, matrices |-> <<>>]]] }

InitSequential ==
    /\ \E x \in LoadedIndexes :
          /\ disk = json_dump(x)
          /\ writers = [w \in Writers |->
                          [pc |-> "idle", cache |-> load_index(Absent, json_dump(x), FALSE).cache,
                           args |-> None, loaded |-> Absent, overlapped |-> FALSE,
                           calls |-> 0]]
    /\ cache = Absent /\ lastOp = [op |-> "none"] /\ nOps = 0
    /\ DiffIdle /\ CodecIdle

\* add_image_version(...) run to its end by process w
ProcessAdd(w, a) ==
    /\ nOps < MaxWriterCalls
    /\ nOps' = nOps + 1
    /\ LET r == add_image_version(writers[w].cache, disk, a.stem, a.version, a.key, a.path)
       IN  /\ disk' = r.disk
           /\ writers' = [writers EXCEPT ![w].cache = r.cache, ![w].args = a,
                                         ![w].loaded = writers[w].cache,
                                         ![w].calls = @ + 1]
           /\ lastOp' = [op |-> "add_image_version", writer |-> w, args |-> a,
                         before |-> writers[w].cache, file0 |-> json_load(disk),
                         fresh |-> writers[w].cache = json_load(disk)]
    /\ UNCHANGED cache
    /\ UNCHANGED diffVars /\ UNCHANGED codecVars

\* load_index(force_reload=True) by process w
ProcessReload(w) ==
    /\ lastOp.op # "load_index"
    /\ LET r == load_index(writers[w].cache, disk, TRUE)
       IN  /\ disk' = r.disk
           /\ writers' = [writers EXCEPT ![w].cache = r.cache]
           /\ lastOp' = [op |-> "load_index", writer |-> w, ret |-> r.ret]
    /\ UNCHANGED <<cache, nOps>>
    /\ UNCHANGED diffVars /\ UNCHANGED codecVars

NextSequential ==
    \/ \E w \in Writers, a \in WriterArgs : ProcessAdd(w, a)
    \/ \E w \in Writers : ProcessReload(w)

SpecSequential == InitSequential /\ [][NextSequential]_vars

\* the mapping a call asks for, if it asks for one
MappingOf(a) ==
    IF truthy(a.key) /\ truthy(a.path) THEN { <<a.stem, a.key, a.path>> } ELSE {}

\* C27: when two processes that have each loaded the index make their
\* add_image_version calls strictly one after the other, the document in the
\* file at the end contains the versions and the mappings added by both.
C27_SequentialWritersKeepBoth ==
    (\A w \in Writers : writers[w].calls >= 1) =>
        \A w \in Writers :
            /\ UpdateOf(writers[w].args) \in VersionFacts(json_load(disk))
            /\ MappingOf(writers[w].args) \subseteq MappingFacts(json_load(disk))

\* C27 as the code has it: a call that follows another process's call writes
\* the caller's cached copy plus its own addition; the document keeps what
\* the file held (the other process's addition, if the file had it) when the
\* caller's cache was equal to the file (it reloaded the index with
\* force_reload), and otherwise only what the caller's cache held.
C27_SequentialWritersFromCache ==
    lastOp.op = "add_image_version" =>
        LET file == json_load(disk)
            a == lastOp.args
        IN  /\ file = writers[lastOp.writer].cache
            /\ VersionFacts(file) = VersionFacts(lastOp.before) \cup {UpdateOf(a)}
            /\ MappingFacts(file) \subseteq MappingFacts(lastOp.before) \cup MappingOf(a)
            /\ MappingOf(a) \subseteq MappingFacts(file)
            /\ lastOp.fresh =>
                  /\ VersionFacts(lastOp.file0) \subseteq VersionFacts(file)
                  /\ { <<m[1], m[2]>> : m \in MappingFacts(lastOp.file0) }
                        \subseteq { <<m[1], m[2]>> : m \in MappingFacts(file) }

\* each process has made one call, the second from the cache it had loaded
\* before the first: the file has lost the first call's version
C27_Witness ==
    /\ lastOp.op = "add_image_version"
    /\ ~lastOp.fresh
    /\ \A w \in Writers : writers[w].calls = 1
    /\ \E o \in Writers \ {lastOp.writer} :
          /\ UpdateOf(writers[o].args) \in VersionFacts(lastOp.file0)
          /\ UpdateOf(writers[o].args) \notin VersionFacts(json_load(disk))

(***************************************************************************)
(* SpecPersist: add_image_version calls of one process, some of which fail *)
(* at the write of state/index.db, and load_index() calls.                 *)
(***************************************************************************)
\* add_image_version(...) that raises out of save_index
AddImageVersionFails(stem, version, key, path, outcome) ==
    /\ nOps < MaxOps
    /\ nOps' = nOps + 1
    /\ LET r == AddImageVersionSaveFails(cache, disk, stem, version, key, path, outcome)
       IN  /\ cache' = r.cache
           /\ disk' = r.disk
           /\ lastOp' = [op |-> "add_image_version", stem |-> stem, version |-> version,
                         key |-> key, path |-> path, error |-> "OSError",
                         before |-> load_index(cache, disk, FALSE).ret]
    /\ UNCHANGED fs /\ Idle

NextPersist ==
    \/ \E st \in Stems, v \in Versions :
          \E kp \in { <<None, None>>, <<MatrixKey(1, v), LegacyPathStr>> } :
              AddImageVersion(st, v, kp[1], kp[2], MaxOps)
    \/ \E st \in Stems, v \in Versions :
          \E kp \in { <<None, None>>, <<MatrixKey(1, v), LegacyPathStr>> } :
              \E outcome \in {"refused", "truncated"} :
                  AddImageVersionFails(st, v, kp[1], kp[2], outcome)
    \/ LoadIndex(FALSE, MaxOps)

SpecPersist == Init /\ [][NextPersist]_vars

\* the call raised
Raised(op) == op.op = "add_image_version" /\ "error" \in DOMAIN op

\* C28: when the write of the index file fails inside add_image_version, a
\* load_index() that follows in the same process returns the index as it was
\* before the call, without the version and the mapping of the failed call.
C28_FailedPersistInvisible ==
    [][ (Raised(lastOp) /\ lastOp'.op = "load_index") =>
          lastOp'.ret = lastOp.before ]_vars


(***************************************************************************)
(* SpecFrame: add_image_version calls with every kind of key and path      *)
(* argument: omitted, empty, and given.                                    *)
(***************************************************************************)
FrameKeys == {None, "", MatrixKey(1, 2), MatrixKey(2, 1)}
FramePaths == {None, "", LegacyPathStr}

\* state/index.db as earlier runs may have left it: empty, or with two
\* collections of which one has an edge mapping
FrameIndexes ==
    { _empty_index,
      [images |-> [st \in Stems |->
                      IF st = "img_a"
                      THEN [versions |-> <<1>>,
                            matrices |-> setitem(<<>>, MatrixKey(1, 2), LegacyPathStr)]
                      ELSE [versions |-> <<1>>, matrices |-> <<>>]]] }

InitFrame ==
    /\ \E x \in FrameIndexes : disk = json_dump(x)
    /\ cache = Absent
    /\ fs = <<>>
    /\ lastOp = [op |-> "none"]
    /\ nOps = 0
    /\ writers = <<>>
    /\ DiffIdle
    /\ lastCodec = [op |-> "none"]

NextFrame ==
    \E st \in Stems, v \in Versions, k \in FrameKeys, p \in FramePaths :
        AddImageVersion(st, v, k, p, MaxFrameOps)

SpecFrame == InitFrame /\ [][NextFrame]_vars

Given(x) == x # None /\ x # ""
MatricesOf(index, stem) ==
    IF stem \in DOMAIN index.images THEN index.images[stem].matrices ELSE <<>>

\* what the call add_image_version(stem, version, key, path) may have done
\* to the index pre to give the index post
FrameHolds(pre, post, stem, version, key, path) ==
    LET m0 == MatricesOf(pre, stem)
        m1 == MatricesOf(post, stem)
    IN  /\ DOMAIN post.images = DOMAIN pre.images \cup {stem}
        /\ \A o \in DOMAIN pre.images \ {stem} : post.images[o] = pre.images[o]
        /\ DOMAIN m1 \subseteq DOMAIN m0 \cup {key}
        /\ \A k \in DOMAIN m0 \ {key} : k \in DOMAIN m1 /\ m1[k] = m0[k]
        /\ m1 # m0 => Given(key) /\ Given(path)
        /\ ~(Given(key) /\ Given(path)) =>
              /\ m1 = m0
              /\ HasVersion(post, stem, version)

\* C30: add_image_version(stem, v, key, path) leaves every other collection
\* as it was, leaves every other edge mapping of stem as it was, and changes
\* the matrices of stem only when key and path are both supplied and
\* non-empty; with one of them missing or empty the version is still added
\* and no mapping is written. Holds for the cached and for the stored index.
C30_AddVersionFrame ==
    [][ lastOp'.op = "add_image_version" =>
          LET pre == load_index(cache, disk, FALSE).ret
          IN  /\ FrameHolds(pre, cache', lastOp'.stem, lastOp'.version,
                            lastOp'.key, lastOp'.path)
              /\ FrameHolds(pre, Parsed(disk'), lastOp'.stem, lastOp'.version,
                            lastOp'.key, lastOp'.path) ]_vars

\* C30 witness: a call with a key and an empty path added a new version to a
\* collection that keeps its mapping under another key, beside another
\* collection
C30_Witness ==
    /\ lastOp.op = "add_image_version"
    /\ lastOp.key = MatrixKey(2, 1) /\ lastOp.path = ""
    /\ ~lastOp.had
    /\ cache # Absent
    /\ DOMAIN cache.images = Stems
    /\ HasVersion(cache, lastOp.stem, lastOp.version)
    /\ DOMAIN cache.images[lastOp.stem].matrices = {MatrixKey(1, 2)}

=============================================================================
